---- MODULE Spec2Model ----
(***************************************************************************)
(* Protection pipeline of inference-safe-aggregation: the executor gateway *)
(* (execute_with_logging), the five aggregation strategies, the audit and  *)
(* history tables, and the attack-side query wrapper.                      *)
(*                                                                         *)
(* SQL text is a sequence of one-character strings, so that the string     *)
(* surgery of _convert_to_count_query is computed as Python computes it.   *)
(* A result set is a sequence of rows, a row a function from column name   *)
(* to value.  A SHA-256 hex digest is a sequence of 64 hex digits (0..15). *)
(***************************************************************************)
EXTENDS Integers, Sequences, FiniteSets, TLC

VARIABLES
    audit,      \* table query_audit, in insertion order
    history,    \* table query_history, in insertion (execution_time) order
    calls,      \* number of completed top-level calls
    last,       \* the last completed top-level call: inputs, result, effects
    pc,         \* position of each concurrent call
    snap,       \* SpecConc: the history each concurrent call read
    cres,       \* the request of each concurrent call and what it has got so far
    employees,  \* table employees, in name order
    pool        \* the connection pool and the open credentialed connections

vars == <<audit, history, calls, last, pc, snap, cres, employees, pool>>

(***************************************************************************)
(* Bounds of the model.                                                    *)
(***************************************************************************)
MaxCalls == 1

\* Python's None where the other values are strings or tuples (block_reason, ...)
None == "None"

\* An optional result set: Python's None, or a list of rows
NoRows == [none |-> TRUE, rows |-> <<>>]
Rows(rows) == [none |-> FALSE, rows |-> rows]
\* "not results": None and the empty list are both false
Falsy(results) == results.none \/ Len(results.rows) = 0

\* result_set_hash NULL
NoHash == <<>>

\* Python's "x = e; body": Op is applied to the value of e
Bind(x, Op(_)) == Op(x)

\* Column values: a number, SQL NULL, a string
Num(n) == <<"num", n>>
Null == <<"null">>
Str(x) == <<"str", x>>
\* a NUMERIC column arrives as decimal.Decimal, which is neither int nor float
Dec(n) == <<"dec", n>>

(***************************************************************************)
(* Python string operations on character sequences.                        *)
(***************************************************************************)
UpperToLower ==
    [c \in {"A","B","C","D","E","F","G","H","I","J","K","L","M","N","O","P",
            "Q","R","S","T","U","V","W","X","Y","Z"} |->
       CASE c = "A" -> "a" [] c = "B" -> "b" [] c = "C" -> "c" [] c = "D" -> "d"
         [] c = "E" -> "e" [] c = "F" -> "f" [] c = "G" -> "g" [] c = "H" -> "h"
         [] c = "I" -> "i" [] c = "J" -> "j" [] c = "K" -> "k" [] c = "L" -> "l"
         [] c = "M" -> "m" [] c = "N" -> "n" [] c = "O" -> "o" [] c = "P" -> "p"
         [] c = "Q" -> "q" [] c = "R" -> "r" [] c = "S" -> "s" [] c = "T" -> "t"
         [] c = "U" -> "u" [] c = "V" -> "v" [] c = "W" -> "w" [] c = "X" -> "x"
         [] c = "Y" -> "y" [] c = "Z" -> "z"]

\* str.lower()
Lower(s) ==
    [i \in 1..Len(s) |-> IF s[i] \in DOMAIN UpperToLower THEN UpperToLower[s[i]] ELSE s[i]]

IsSpace(c) == c \in {" ", "\n", "\t", "\r"}

\* str.strip(): leading and trailing whitespace removed
Strip(s) ==
    Bind({i \in 1..Len(s) : ~IsSpace(s[i])}, LAMBDA keep :
        IF keep = {} THEN <<>>
        ELSE SubSeq(s, CHOOSE i \in keep : \A j \in keep : i <= j,
                       CHOOSE i \in keep : \A j \in keep : i >= j))

\* str.startswith(p)
StartsWith(s, p) == Len(s) >= Len(p) /\ SubSeq(s, 1, Len(p)) = p

\* str.find(p): the 0-based index of the first occurrence of p in s, -1 if none
Find(s, p) ==
    Bind({i \in 0..(Len(s) - Len(p)) : SubSeq(s, i + 1, i + Len(p)) = p}, LAMBDA hits :
        IF hits = {} THEN -1 ELSE CHOOSE i \in hits : \A j \in hits : i <= j)

\* s[k:] for a 0-based k >= 0
SliceFrom(s, k) == SubSeq(s, k + 1, Len(s))

(***************************************************************************)
(* SQL text used by the model.                                             *)
(***************************************************************************)
KwSelect == <<"s", "e", "l", "e", "c", "t">>
KwFrom == <<"f", "r", "o", "m">>
CountHead ==
    <<"S", "E", "L", "E", "C", "T", " ", "C", "O", "U", "N", "T", "(", "*", ")", " ",
      "a", "s", " ", "c", "o", "u", "n", "t", " ", "F", "R", "O", "M", " ">>
SubqueryTail == <<")", " ", "a", "s", " ", "s", "u", "b", "q", "u", "e", "r", "y">>

SelAvg ==
    <<"S", "E", "L", "E", "C", "T", " ", "A", "V", "G", "(", "s", "a", "l", ")", " ",
      "F", "R", "O", "M">>
SelSal == <<"S", "E", "L", "E", "C", "T", " ", "s", "a", "l", " ", "F", "R", "O", "M">>
SelCount ==
    <<"S", "E", "L", "E", "C", "T", " ", "C", "O", "U", "N", "T", "(", "*", ")", " ",
      "a", "s", " ", "c", "o", "u", "n", "t", " ", "F", "R", "O", "M">>
FromOps ==
    <<" ", "e", "m", "p", " ", "W", "H", "E", "R", "E", " ", "d", "e", "p", "t", "=",
      "'", "o", "p", "s", "'">>
FromHr ==
    <<" ", "e", "m", "p", " ", "W", "H", "E", "R", "E", " ", "d", "e", "p", "t", "=",
      "'", "h", "r", "'">>
FromNone ==
    <<" ", "e", "m", "p", " ", "W", "H", "E", "R", "E", " ", "d", "e", "p", "t", "=",
      "'", "n", "o", "n", "e", "'">>
FromId == <<" ", "e", "m", "p", " ", "W", "H", "E", "R", "E", " ", "i", "d", "=">>
LeadingSpace == <<"\n", " ", " ">>

\* str(n) for n >= 0
DigitChars == <<"0", "1", "2", "3", "4", "5", "6", "7", "8", "9">>
RECURSIVE Digits(_)
Digits(n) ==
    IF n < 10 THEN <<DigitChars[n + 1]>>
    ELSE Digits(n \div 10) \o <<DigitChars[(n % 10) + 1]>>

\* The queries callers submit.
QOps == SelAvg \o FromOps                       \* average over a group of 5
QHr == SelAvg \o FromHr                         \* average over a group of 2
QNone == SelSal \o FromNone                     \* selects no row
QOpsLead == LeadingSpace \o SelAvg \o FromOps   \* QOps as a triple-quoted literal
QCountHr == SelCount \o FromHr                  \* a count the caller asks for
Queries == {QOps, QHr, QNone, QOpsLead, QCountHr}

\* a grouped count: one row per department
QByDept ==
    <<"S", "E", "L", "E", "C", "T", " ", "d", "e", "p", "t", ",", " ",
      "C", "O", "U", "N", "T", "(", "*", ")", " ", "a", "s", " ", "c", "o", "u", "n", "t",
      " ", "F", "R", "O", "M", " ", "e", "m", "p", " ",
      "G", "R", "O", "U", "P", " ", "B", "Y", " ", "d", "e", "p", "t">>

\* The defaults of the strategies and the literals of OverlapControl.
HashDigits == 64
HashBits == 256
HistoryLimit == 20
ThresholdNum == 4
ThresholdDen == 5
MinSize == 5
MinCellSize == 3
Epsilon == 1

(***************************************************************************)
(* The relational store: table emp and the SQL the store understands.      *)
(* The store lower-cases and splits the text on whitespace, and answers    *)
(* SELECT <list> FROM emp [WHERE dept='<d>'] for the three select lists    *)
(* below, and the count per department; any other text is rejected with an *)
(* error.                                                                  *)
(***************************************************************************)
Named ==
    << [id |-> 1, dept |-> "ops", sal |-> 5],
       [id |-> 2, dept |-> "ops", sal |-> 6],
       [id |-> 3, dept |-> "ops", sal |-> 7],
       [id |-> 4, dept |-> "ops", sal |-> 8],
       [id |-> 5, dept |-> "ops", sal |-> 9],
       [id |-> 6, dept |-> "hr", sal |-> 4],
       [id |-> 7, dept |-> "hr", sal |-> 6] >>

\* the staff of the other departments: one more employee than the history window
\* holds, each with a salary of their own
Others == [i \in 1..(HistoryLimit + 1) |-> [id |-> Len(Named) + i, dept |-> "gen", sal |-> 10 + i]]
Employees == Named \o Others

\* the salary of one employee outside ops and hr
QOther(i) == SelSal \o FromId \o Digits(Len(Named) + i)

RECURSIVE SplitAcc(_, _, _, _)
SplitAcc(s, i, cur, acc) ==
    IF i > Len(s) THEN (IF cur = <<>> THEN acc ELSE Append(acc, cur))
    ELSE IF IsSpace(s[i])
         THEN SplitAcc(s, i + 1, <<>>, IF cur = <<>> THEN acc ELSE Append(acc, cur))
         ELSE SplitAcc(s, i + 1, Append(cur, s[i]), acc)

\* the lower-cased words of a SQL text
Tokens(text) == SplitAcc(Lower(text), 1, <<>>, <<>>)

TokAvg == <<"a", "v", "g", "(", "s", "a", "l", ")">>
TokSal == <<"s", "a", "l">>
TokCountStar == <<"c", "o", "u", "n", "t", "(", "*", ")">>
TokAs == <<"a", "s">>
TokCount == <<"c", "o", "u", "n", "t">>
TokEmp == <<"e", "m", "p">>
TokWhere == <<"w", "h", "e", "r", "e">>
TokDept(d) == <<"d", "e", "p", "t", "=", "'">> \o d \o <<"'">>
DeptChars == [ops |-> <<"o", "p", "s">>, hr |-> <<"h", "r">>, none |-> <<"n", "o", "n", "e">>]
TokId(n) == <<"i", "d", "=">> \o Digits(n)

RECURSIVE SumSal(_)
SumSal(es) == IF es = <<>> THEN 0 ELSE Head(es).sal + SumSal(Tail(es))

\* the WHERE conditions the store accepts, and whether employee e satisfies one
CondOk(c) ==
    \/ \E d \in DOMAIN DeptChars : c = TokDept(DeptChars[d])
    \/ \E n \in 1..Len(Employees) : c = TokId(n)
Satisfies(e, c) ==
    \/ e.dept \in DOMAIN DeptChars /\ c = TokDept(DeptChars[e.dept])
    \/ c = TokId(e.id)

\* the FROM clauses the store accepts, and the employees each selects
SourceOk(src) ==
    \/ src = <<TokEmp>>
    \/ /\ Len(src) = 3
       /\ src[1] = TokEmp
       /\ src[2] = TokWhere
       /\ CondOk(src[3])
SourceRows(src) ==
    IF src = <<TokEmp>> THEN Employees
    ELSE SelectSeq(Employees, LAMBDA e : Satisfies(e, src[3]))

\* the select lists the store accepts, and the rows of each over the employees es
SelectOk(sel) == sel \in {<<TokAvg>>, <<TokCountStar, TokAs, TokCount>>, <<TokSal>>}
Project(sel, es) ==
    IF sel = <<TokAvg>>
    THEN << [avg |-> IF Len(es) = 0 THEN Null ELSE Dec(SumSal(es) \div Len(es))] >>
    ELSE IF sel = <<TokCountStar, TokAs, TokCount>>
         THEN << [count |-> Num(Len(es))] >>
         ELSE [i \in 1..Len(es) |-> [sal |-> Num(es[i].sal)]]

\* SELECT dept, COUNT(*) as count FROM emp GROUP BY dept: the departments in the
\* order of their first employee, each with its number of employees
GroupedSelect == <<<<"d", "e", "p", "t", ",">>, TokCountStar, TokAs, TokCount>>
GroupedSource ==
    <<TokEmp, <<"g", "r", "o", "u", "p">>, <<"b", "y">>, <<"d", "e", "p", "t">>>>
DeptOrder == <<"ops", "hr", "gen">>
GroupRows ==
    [g \in 1..Len(DeptOrder) |->
        [dept |-> Str(DeptOrder[g]),
         count |-> Num(Len(SelectSeq(Employees, LAMBDA e : e.dept = DeptOrder[g])))]]

ErrSql == "store: syntax error or unknown relation"
ErrConnection == "store: connection failed"
ErrAudit == "audit: insert failed"
ErrHistory == "history: statement failed"

\* cursor.execute(query); cursor.fetchall() in the store
StoreEval(text) ==
    Bind(Tokens(text), LAMBDA t :
        Bind({i \in 1..Len(t) : t[i] = KwFrom}, LAMBDA froms :
            IF Len(t) = 0 \/ t[1] # KwSelect \/ froms = {}
            THEN [ok |-> FALSE, err |-> ErrSql, rows |-> <<>>]
            ELSE Bind(CHOOSE i \in froms : \A j \in froms : i <= j, LAMBDA f :
                    IF SourceOk(SubSeq(t, f + 1, Len(t))) /\ SelectOk(SubSeq(t, 2, f - 1))
                    THEN [ok |-> TRUE, err |-> None,
                          rows |-> Project(SubSeq(t, 2, f - 1),
                                           SourceRows(SubSeq(t, f + 1, Len(t))))]
                    ELSE IF /\ SubSeq(t, f + 1, Len(t)) = GroupedSource
                            /\ SubSeq(t, 2, f - 1) = GroupedSelect
                    THEN [ok |-> TRUE, err |-> None, rows |-> GroupRows]
                    ELSE [ok |-> FALSE, err |-> ErrSql, rows |-> <<>>])))

\* the number of rows the FROM/WHERE clause of a caller's query selects
TrueSize(q) ==
    Bind(Tokens(q), LAMBDA t :
        Bind(CHOOSE i \in 1..Len(t) : t[i] = KwFrom, LAMBDA f :
            Len(SourceRows(SubSeq(t, f + 1, Len(t))))))

(***************************************************************************)
(* Result-set hashing (hashlib.sha256 over the canonical result string)    *)
(* and hash similarity.                                                    *)
(***************************************************************************)
Range(f) == {f[i] : i \in DOMAIN f}

\* str(sorted([str(sorted(r.items())) for r in results])): the text depends on the
\* rows as a multiset and on each row as a set of (column, value) items
result_str(results) ==
    [r \in Range(results) |-> Cardinality({i \in DOMAIN results : results[i] = r})]

\* 64 hex digits; two digests of different codes below 64 differ in at least 64 bits
EvenNibbles == <<0, 3, 5, 6, 9, 10, 12, 15>>
HexDigest(code) ==
    [i \in 1..HashDigits |->
        IF 2 * i <= HashDigits THEN EvenNibbles[(code \div 8) + 1]
        ELSE EvenNibbles[(code % 8) + 1]]

\* a digest one bit away from HexDigest(code)
NearDigest(code) ==
    [HexDigest(code) EXCEPT ![HashDigits] = IF @ % 2 = 0 THEN @ + 1 ELSE @ - 1]

\* the canonical strings of the results of QOps, QHr and QCountHr
StrOps == result_str(StoreEval(QOps).rows)
StrHr == result_str(StoreEval(QHr).rows)
StrCountHr == result_str(StoreEval(QCountHr).rows)
StrOther(i) == result_str(<< [sal |-> Num(10 + i)] >>)

\* hashlib.sha256(result_str.encode()).hexdigest(), as an interpretation of SHA-256
\* on the result sets that reach OverlapControl in this model: one digest per
\* canonical string.  The digest of the hr average is chosen one bit away from that
\* of the ops average, so that two different digests above the threshold occur.
sha256(c) ==
    IF c = StrOps THEN HexDigest(40)
    ELSE IF c = StrHr THEN NearDigest(40)
    ELSE IF c = StrCountHr THEN HexDigest(41)
    ELSE IF \E i \in 1..Len(Others) : c = StrOther(i)
         THEN HexDigest(CHOOSE i \in 1..Len(Others) : c = StrOther(i))
         ELSE HexDigest(63)

\* the number of bit positions in which hex digits a and b agree
SameBits(a, b) ==
    IF a = b THEN 4
    ELSE Cardinality({k \in 0..3 : (a \div (2 ^ k)) % 2 = (b \div (2 ^ k)) % 2})

\* sum(b1 == b2 for b1, b2 in zip(bin1, bin2)) over the digits from i on, where
\* bin1, bin2 = bin(int(hash, 16))[2:].zfill(256)
RECURSIVE Matches(_, _, _)
Matches(hash1, hash2, i) ==
    IF i > HashDigits THEN 0
    ELSE SameBits(hash1[i], hash2[i]) + Matches(hash1, hash2, i + 1)

\* _calculate_overlap returns matches / 256; the model returns matches
calculate_overlap(hash1, hash2) == Matches(hash1, hash2, 1)

\* overlap > self.overlap_threshold, for overlap = matches / 256 and threshold 0.8
OverThreshold(matches) == matches * ThresholdDen > ThresholdNum * HashBits

(***************************************************************************)
(* Database (src/database.py).  A call works on a record d: the two tables,*)
(* the set of statements of this call that the database fails (faults,     *)
(* named by their place in the handler), and the log of the statements the *)
(* call has sent.                                                          *)
(***************************************************************************)
Ev(kind, label, text, ok, err, n) ==
    [kind |-> kind, label |-> label, text |-> text, ok |-> ok, err |-> err, n |-> n]

\* Database.execute_query(query, params, user, password), fetch=True
execute_query(d, label, query) ==
    Bind(IF label \in d.faults
         THEN [ok |-> FALSE, err |-> ErrConnection, rows |-> <<>>]
         ELSE StoreEval(query),
         LAMBDA r :
            [ok |-> r.ok, err |-> r.err, rows |-> r.rows,
             d |-> [d EXCEPT !.log = Append(@, Ev("exec", label, query, r.ok, r.err,
                                                  IF r.ok THEN Len(r.rows) ELSE 0))]])

\* an audit INSERT that loses the was_blocked flag
log_query_audit_unflagged(d, label, username, query_text, result_count, was_blocked, block_reason) ==
    IF label \in d.faults
    THEN [ok |-> FALSE, err |-> ErrAudit,
          d |-> [d EXCEPT !.log = Append(@, Ev("audit", label, query_text, FALSE, ErrAudit, 0))]]
    ELSE [ok |-> TRUE, err |-> None,
          d |-> [d EXCEPT
                   !.audit = Append(@, [username |-> username, query_text |-> query_text,
                                        result_count |-> result_count,
                                        was_blocked |-> FALSE,
                                        block_reason |-> block_reason]),
                   !.log = Append(@, Ev("audit", label, query_text, TRUE, None, 0))]]


\* Database.log_query_audit: one INSERT into query_audit, which may fail
log_query_audit(d, label, username, query_text, result_count, was_blocked, block_reason) ==
    IF label \in d.faults
    THEN [ok |-> FALSE, err |-> ErrAudit,
          d |-> [d EXCEPT !.log = Append(@, Ev("audit", label, query_text, FALSE, ErrAudit, 0))]]
    ELSE [ok |-> TRUE, err |-> None,
          d |-> [d EXCEPT
                   !.audit = Append(@, [username |-> username, query_text |-> query_text,
                                        result_count |-> result_count,
                                        was_blocked |-> was_blocked,
                                        block_reason |-> block_reason]),
                   !.log = Append(@, Ev("audit", label, query_text, TRUE, None, 0))]]

\* Database.store_query_history: one INSERT into query_history.  The column
\* query_hash (sha256 of the text) is written and never read; it is left out.
\* a history that keeps only the latest entry of each user
store_query_history_latest(d, label, username, query_text, result_set) ==
    IF label \in d.faults
    THEN [ok |-> FALSE, err |-> ErrHistory,
          d |-> [d EXCEPT !.log = Append(@, Ev("hist_store", label, query_text, FALSE,
                                               ErrHistory, 0))]]
    ELSE [ok |-> TRUE, err |-> None,
          d |-> [d EXCEPT
                   !.history = Append(SelectSeq(@, LAMBDA e : e.username # username),
                                      [username |-> username,
                                       query_text |-> query_text,
                                       result_set_hash |->
                                           IF Len(result_set) > 0
                                           THEN sha256(result_str(result_set))
                                           ELSE NoHash]),
                   !.log = Append(@, Ev("hist_store", label, query_text, TRUE, None, 0))]]

\* Database.store_query_history: INSERT INTO query_history
store_query_history(d, label, username, query_text, result_set) ==
    IF label \in d.faults
    THEN [ok |-> FALSE, err |-> ErrHistory,
          d |-> [d EXCEPT !.log = Append(@, Ev("hist_store", label, query_text, FALSE,
                                               ErrHistory, 0))]]
    ELSE [ok |-> TRUE, err |-> None,
          d |-> [d EXCEPT
                   !.history = Append(@, [username |-> username,
                                          query_text |-> query_text,
                                          result_set_hash |->
                                              IF Len(result_set) > 0
                                              THEN sha256(result_str(result_set))
                                              ELSE NoHash]),
                   !.log = Append(@, Ev("hist_store", label, query_text, TRUE, None, 0))]]

\* a history read without WHERE username = %s
RecentOfAnyone(t, username, limit) ==
    [i \in 1..(IF limit < Len(t) THEN limit ELSE Len(t)) |-> t[Len(t) - i + 1]]

\* the rows of table t for username, most recent first, at most limit of them
RecentOf(t, username, limit) ==
    Bind(SelectSeq(t, LAMBDA e : e.username = username), LAMBDA mine :
        [i \in 1..(IF limit < Len(mine) THEN limit ELSE Len(mine)) |->
            mine[Len(mine) - i + 1]])

\* Database.get_query_history: WHERE username = %s ORDER BY execution_time DESC LIMIT %s
get_query_history(d, label, username, limit) ==
    IF label \in d.faults
    THEN [ok |-> FALSE, err |-> ErrHistory, rows |-> <<>>,
          d |-> [d EXCEPT !.log = Append(@, Ev("hist_read", label, <<>>, FALSE, ErrHistory, 0))]]
    ELSE Bind(RecentOf(d.history, username, limit), LAMBDA rows :
            [ok |-> TRUE, err |-> None, rows |-> rows,
             d |-> [d EXCEPT !.log = Append(@, Ev("hist_read", label, <<>>, TRUE, None,
                                                  Len(rows)))]])

(***************************************************************************)
(* Executor gateway (AggregationMethod.execute_with_logging).  A result is *)
(* [raised, err, results, blocked, reason, d]: raised means an exception   *)
(* left the method.                                                        *)
(***************************************************************************)
GwReturn(results, blocked, reason, d) ==
    [raised |-> FALSE, err |-> None, results |-> results, blocked |-> blocked,
     reason |-> reason, d |-> d]
GwRaise(err, d) ==
    [raised |-> TRUE, err |-> err, results |-> NoRows, blocked |-> FALSE,
     reason |-> None, d |-> d]

\* an except branch that returns ([], True, str(e))
GwExceptEmptyList(d, g, username, query, e) ==
    Bind(log_query_audit(d, <<g, "except_audit">>, username, query, 0, TRUE, e), LAMBDA b :
        IF b.ok THEN GwReturn(Rows(<<>>), TRUE, e, b.d) ELSE GwRaise(b.err, b.d))

\* the except branch: audit the failure, return (None, True, str(e))
GwExcept(d, g, username, query, e) ==
    Bind(log_query_audit(d, <<g, "except_audit">>, username, query, 0, TRUE, e), LAMBDA b :
        IF b.ok THEN GwReturn(NoRows, TRUE, e, b.d) ELSE GwRaise(b.err, b.d))

execute_with_logging(d, g, username, query) ==
    Bind(execute_query(d, <<g, "exec">>, query), LAMBDA r :
        IF r.ok
        THEN Bind(log_query_audit(r.d, <<g, "audit">>, username, query,
                                  IF Len(r.rows) > 0 THEN Len(r.rows) ELSE 0,
                                  FALSE, None),
                  LAMBDA a :
                    IF a.ok THEN GwReturn(Rows(r.rows), FALSE, None, a.d)
                    ELSE GwExcept(a.d, g, username, query, a.err))
        ELSE GwExcept(r.d, g, username, query, r.err))

\* InferenceAttack.execute_query: rows, or None when the store raised
attack_execute_query(d, label, query) ==
    Bind(execute_query(d, label, query), LAMBDA r :
        [raised |-> FALSE, err |-> None, results |-> IF r.ok THEN Rows(r.rows) ELSE NoRows,
         blocked |-> FALSE, reason |-> None, d |-> r.d])

(***************************************************************************)
(* The five strategies (src/src/aggregation_methods.py).  A result is      *)
(* [raised, err, out, d]; out is the dictionary aggregate returns.         *)
(***************************************************************************)
Outcome(method, blocked, block_reason, results, protection_applied, original_results) ==
    [method |-> method, blocked |-> blocked, block_reason |-> block_reason,
     results |-> results, protection_applied |-> protection_applied,
     original_results |-> original_results]
NoOutcome == Outcome(None, FALSE, None, NoRows, None, NoRows)

Return(out, d) == [raised |-> FALSE, err |-> None, out |-> out, d |-> d]
Raise(err, d) == [raised |-> TRUE, err |-> err, out |-> NoOutcome, d |-> d]

\* NoProtection.aggregate
NoProtectionAggregate(d, username, query) ==
    Bind(execute_with_logging(d, "g1", username, query), LAMBDA r :
        IF r.raised THEN Raise(r.err, r.d)
        ELSE Return(Outcome("No Protection", r.blocked, r.reason, r.results, None, NoRows),
                    r.d))

\* MinimumSizeRestriction._convert_to_count_query
convert_to_count_query(query) ==
    Bind(Strip(Lower(query)), LAMBDA query_lower :
        Bind(Find(query_lower, KwFrom), LAMBDA from_index :
            IF StartsWith(query_lower, KwSelect) /\ from_index # -1
            THEN CountHead \o SliceFrom(query, from_index + 4)
            ELSE CountHead \o <<"(">> \o query \o SubqueryTail))

\* f"Result set too small: {count} < {self.min_size}"
TooSmall(count, min_size) == <<"Result set too small", count, min_size>>

\* a Minimum Size that sends the original query whatever the count pre-check said
MinimumSizeUngated(d, username, min_size, query) ==
    Bind(execute_with_logging(d, "g1", username, convert_to_count_query(query)), LAMBDA c :
        IF c.raised THEN Raise(c.err, c.d)
        ELSE Bind(execute_with_logging(c.d, "g2", username, query), LAMBDA r :
                IF r.raised THEN Raise(r.err, r.d)
                ELSE Return(Outcome("Minimum Size Restriction", r.blocked, r.reason,
                                    r.results, <<"min_size", min_size>>, NoRows), r.d)))

\* MinimumSizeRestriction.aggregate
MinimumSizeAggregate(d, username, min_size, query) ==
    Bind(execute_with_logging(d, "g1", username, convert_to_count_query(query)), LAMBDA c :
        IF c.raised THEN Raise(c.err, c.d)
        ELSE IF c.blocked
        THEN Return(Outcome("Minimum Size Restriction", TRUE, c.reason, NoRows,
                            <<"min_size", min_size>>, NoRows), c.d)
        ELSE
        Bind(IF ~Falsy(c.results) THEN c.results.rows[1].count[2] ELSE 0, LAMBDA count :
            IF count < min_size
            THEN Bind(log_query_audit(c.d, <<"s", "block_audit">>, username, query,
                                      count, TRUE, TooSmall(count, min_size)),
                      LAMBDA a :
                        IF ~a.ok THEN Raise(a.err, a.d)
                        ELSE Return(Outcome("Minimum Size Restriction", TRUE,
                                            TooSmall(count, min_size), NoRows,
                                            <<"min_size", min_size>>, NoRows), a.d))
            ELSE Bind(execute_with_logging(c.d, "g2", username, query), LAMBDA r :
                    IF r.raised THEN Raise(r.err, r.d)
                    ELSE Return(Outcome("Minimum Size Restriction", r.blocked, r.reason,
                                        r.results,
                                        <<"min_size", min_size, "actual_size", count>>,
                                        NoRows), r.d))))

\* isinstance(value, (int, float))
IsIntOrFloat(value) == value[1] = "num"

\* the columns of a row in the order the store returned them
ColumnOrder == <<"avg", "dept", "count", "sal">>
Keys(row) == SelectSeq(ColumnOrder, LAMBDA k : k \in DOMAIN row)
NumericKeys(row) == SelectSeq(Keys(row), LAMBDA k : IsIntOrFloat(row[k]))

\* the (row, column) places of the numeric fields, in iteration order
RECURSIVE NumericPlaces(_, _)
NumericPlaces(results, i) ==
    IF i > Len(results) THEN <<>>
    ELSE [j \in 1..Len(NumericKeys(results[i])) |-> <<i, NumericKeys(results[i])[j]>>]
         \o NumericPlaces(results, i + 1)

\* the rows with the n-th numeric field replaced by value + draws[n]
AddNoise(results, draws) ==
    Bind(NumericPlaces(results, 1), LAMBDA places :
        [i \in 1..Len(results) |->
            [k \in DOMAIN results[i] |->
                IF IsIntOrFloat(results[i][k])
                THEN Num(results[i][k][2]
                         + draws[CHOOSE n \in 1..Len(places) : places[n] = <<i, k>>])
                ELSE results[i][k]]])

\* DifferentialPrivacy.aggregate; draws[n] is the n-th value np.random.laplace returns
DifferentialPrivacyAggregate(d, username, epsilon, query, draws) ==
    Bind(execute_with_logging(d, "g1", username, query), LAMBDA r :
        IF r.raised THEN Raise(r.err, r.d)
        ELSE IF r.blocked \/ Falsy(r.results)
        THEN Return(Outcome("Differential Privacy", r.blocked, r.reason, NoRows,
                            <<"epsilon", epsilon>>, NoRows), r.d)
        ELSE Return(Outcome("Differential Privacy", FALSE, None,
                            Rows(AddNoise(r.results.rows, draws)),
                            <<"epsilon", epsilon, "laplace_noise_added">>, r.results), r.d))

\* a comparison loop that looks only at the most recent entry
OverlappingNewest(current_hash, hist) ==
    {i \in 1..Len(hist) :
        /\ i = 1
        /\ Len(hist[i].result_set_hash) > 0
        /\ OverThreshold(calculate_overlap(current_hash, hist[i].result_set_hash))}

\* the history entries, by position, whose stored hash is over the threshold
Overlapping(current_hash, hist) ==
    {i \in 1..Len(hist) :
        /\ Len(hist[i].result_set_hash) > 0
        /\ OverThreshold(calculate_overlap(current_hash, hist[i].result_set_hash))}

\* OverlapControl.aggregate, after the history read and the gateway call
OverlapCheck(h, r, username, query) ==
    Bind(sha256(result_str(r.results.rows)), LAMBDA current_hash :
        Bind(Overlapping(current_hash, h.rows), LAMBDA over :
            IF over # {}
            THEN Bind(calculate_overlap(
                          current_hash,
                          h.rows[CHOOSE i \in over : \A j \in over : i <= j].result_set_hash),
                      LAMBDA overlap :
                Bind(log_query_audit(r.d, <<"s", "block_audit">>, username, query,
                                     Len(r.results.rows), TRUE,
                                     <<"Query overlap too high", overlap, ">",
                                       ThresholdNum, ThresholdDen>>),
                     LAMBDA a :
                        IF ~a.ok THEN Raise(a.err, a.d)
                        ELSE Return(Outcome("Overlap Control", TRUE,
                                            <<"Query overlap too high", overlap>>, NoRows,
                                            <<"threshold", ThresholdNum, ThresholdDen>>,
                                            NoRows), a.d)))
            ELSE Bind(store_query_history(r.d, <<"s", "hist_store">>, username, query,
                                          r.results.rows),
                      LAMBDA st :
                        IF ~st.ok THEN Raise(st.err, st.d)
                        ELSE Return(Outcome("Overlap Control", FALSE, None, r.results,
                                            <<"threshold", ThresholdNum, ThresholdDen,
                                              "overlap_acceptable">>, NoRows), st.d))))

\* OverlapControl.aggregate
OverlapControlAggregate(d, username, query) ==
    Bind(get_query_history(d, <<"s", "hist_read">>, username, HistoryLimit), LAMBDA h :
        IF ~h.ok THEN Raise(h.err, h.d)
        ELSE Bind(execute_with_logging(h.d, "g1", username, query), LAMBDA r :
                IF r.raised THEN Raise(r.err, r.d)
                ELSE IF r.blocked \/ Falsy(r.results)
                THEN Return(Outcome("Overlap Control", r.blocked, r.reason, NoRows,
                                    <<"threshold", ThresholdNum, ThresholdDen>>, NoRows),
                            r.d)
                ELSE OverlapCheck(h, r, username, query)))

\* 'count' in key.lower()
ColumnChars ==
    [avg |-> <<"a", "v", "g">>, dept |-> <<"d", "e", "p", "t">>,
     count |-> <<"c", "o", "u", "n", "t">>, sal |-> <<"s", "a", "l">>]
IsCountLike(key) == Find(Lower(ColumnChars[key]), TokCount) # -1

\* the first count-like column of a row, as a sequence of at most one name
CountCol(row) ==
    Bind(SelectSeq(Keys(row), IsCountLike), LAMBDA cs :
        IF Len(cs) > 0 THEN <<cs[1]>> ELSE <<>>)

\* a test that suppresses the cells at or above the minimum
SuppressLarge(row, min_cell_size) ==
    /\ Len(CountCol(row)) > 0
    /\ row[CountCol(row)[1]][2] >= min_cell_size

\* count_col and row[count_col] < self.min_cell_size
Suppress(row, min_cell_size) ==
    /\ Len(CountCol(row)) > 0
    /\ row[CountCol(row)[1]][2] < min_cell_size

\* CellSuppression.aggregate
CellSuppressionAggregate(d, username, min_cell_size, query) ==
    Bind(execute_with_logging(d, "g1", username, query), LAMBDA r :
        IF r.raised THEN Raise(r.err, r.d)
        ELSE IF r.blocked \/ Falsy(r.results)
        THEN Return(Outcome("Cell Suppression", r.blocked, r.reason, NoRows,
                            <<"min_cell_size", min_cell_size>>, NoRows), r.d)
        ELSE Return(Outcome("Cell Suppression", FALSE, None,
                            Rows([i \in 1..Len(r.results.rows) |->
                                    IF Suppress(r.results.rows[i], min_cell_size)
                                    THEN [k \in DOMAIN r.results.rows[i] |->
                                            IF k # CountCol(r.results.rows[i])[1]
                                            THEN Str("SUPPRESSED") ELSE Null]
                                    ELSE r.results.rows[i]]),
                            <<"min_cell_size", min_cell_size, "suppressed",
                              Cardinality({i \in 1..Len(r.results.rows) :
                                             Suppress(r.results.rows[i], min_cell_size)})>>,
                            r.results), r.d))

(***************************************************************************)
(* Sequential calls.  Each action is one complete call of a public method; *)
(* F is the set of its database statements that fail.                      *)
(***************************************************************************)
Users == {"system", "test_user"}
DefaultUser == "system"
NoiseValues == {-1, 0, 1}

\* The ways the statements of one execute_with_logging call can fail: the query or
\* the audit INSERT, and then the audit INSERT of the except branch.
GwFaults(g) ==
    { {}, {<<g, "exec">>}, {<<g, "exec">>, <<g, "except_audit">>},
      {<<g, "audit">>}, {<<g, "audit">>, <<g, "except_audit">>} }
BlockLabel == <<"s", "block_audit">>
HistReadLabel == <<"s", "hist_read">>
HistStoreLabel == <<"s", "hist_store">>

D0(F) == [audit |-> audit, history |-> history, faults |-> F, log |-> <<>>]

GwNone == [results |-> NoRows, blocked |-> FALSE, reason |-> None]
NoCall ==
    [op |-> "none", username |-> None, query |-> <<>>, faults |-> {}, raised |-> FALSE,
     err |-> None, out |-> NoOutcome, gw |-> GwNone, log |-> <<>>, audit0 |-> 0,
     hist0 |-> 0]

\* the labels of the statements the call sent
Sent(res) == {res.d.log[i].label : i \in DOMAIN res.d.log}

\* the call ends: the tables are as the call left them, last describes the call
Complete(op, username, query, res, out, gw, F) ==
    /\ F \subseteq Sent(res)
    /\ audit' = res.d.audit
    /\ history' = res.d.history
    /\ calls' = calls + 1
    /\ last' = [op |-> op, username |-> username, query |-> query, faults |-> F,
                raised |-> res.raised, err |-> res.err, out |-> out, gw |-> gw,
                log |-> res.d.log, audit0 |-> Len(audit), hist0 |-> Len(history)]
    /\ UNCHANGED <<pc, snap, cres, employees, pool>>

Strategy(op, username, query, res, F) ==
    Complete(op, username, query, res, res.out, GwNone, F)

Wrapper(op, username, query, res, F) ==
    Complete(op, username, query, res, NoOutcome,
             [results |-> res.results, blocked |-> res.blocked, reason |-> res.reason], F)

ExecuteWithLogging ==
    /\ calls < MaxCalls
    /\ \E q \in Queries, F \in GwFaults("g1") :
        \E res \in {execute_with_logging(D0(F), "g1", DefaultUser, q)} :
            Wrapper("gateway", DefaultUser, q, res, F)

AttackExecuteQuery ==
    /\ calls < MaxCalls
    /\ \E q \in Queries, F \in {{}, {<<"a", "exec">>}} :
        \E res \in {attack_execute_query(D0(F), <<"a", "exec">>, q)} :
            Wrapper("attack_query", "attacker", q, res, F)

NoProtection ==
    /\ calls < MaxCalls
    /\ \E q \in Queries, F \in GwFaults("g1") :
        \E res \in {NoProtectionAggregate(D0(F), DefaultUser, q)} :
            Strategy("no_protection", DefaultUser, q, res, F)

MinimumSizeRestriction ==
    /\ calls < MaxCalls
    /\ \E q \in Queries, F \in GwFaults("g1") \cup {{BlockLabel}} \cup GwFaults("g2") :
        \E res \in {MinimumSizeAggregate(D0(F), DefaultUser, MinSize, q)} :
            Strategy("min_size", DefaultUser, q, res, F)

\* the number of numeric fields the store returns for q
Draws(q) == Bind(StoreEval(q), LAMBDA r : IF r.ok THEN Len(NumericPlaces(r.rows, 1)) ELSE 0)

DifferentialPrivacy ==
    /\ calls < MaxCalls
    /\ \E q \in Queries, F \in GwFaults("g1") :
        \E draws \in [1..(IF F = {} THEN Draws(q) ELSE 0) -> NoiseValues] :
            \E res \in {DifferentialPrivacyAggregate(D0(F), DefaultUser, Epsilon, q, draws)} :
                Strategy("differential_privacy", DefaultUser, q, res, F)

OverlapControl ==
    /\ calls < MaxCalls
    /\ \E u \in Users, q \in Queries,
          F \in GwFaults("g1") \cup {{HistReadLabel}, {BlockLabel}, {HistStoreLabel}} :
        \E res \in {OverlapControlAggregate(D0(F), u, q)} :
            Strategy("overlap_control", u, q, res, F)

CellSuppression ==
    /\ calls < MaxCalls
    /\ \E q \in Queries \cup {QByDept}, F \in GwFaults("g1") :
        \E res \in {CellSuppressionAggregate(D0(F), DefaultUser, MinCellSize, q)} :
            Strategy("cell_suppression", DefaultUser, q, res, F)

(***************************************************************************)
(* AggregationComparator.compare_all: the five strategies one after        *)
(* another on the same query.  Fs[i] is the set of statements of the i-th  *)
(* strategy that fail.                                                     *)
(***************************************************************************)
Methods ==
    <<"no_protection", "min_size", "differential_privacy", "overlap_control",
      "cell_suppression">>
MethodNames ==
    <<"No Protection", "Minimum Size Restriction", "Differential Privacy",
      "Overlap Control", "Cell Suppression">>

\* method_obj.aggregate(query, params, user, password)
MethodAggregate(m, d, username, query, draws) ==
    IF m = "no_protection" THEN NoProtectionAggregate(d, username, query)
    ELSE IF m = "min_size" THEN MinimumSizeAggregate(d, username, MinSize, query)
    ELSE IF m = "differential_privacy"
         THEN DifferentialPrivacyAggregate(d, username, Epsilon, query, draws)
    ELSE IF m = "overlap_control" THEN OverlapControlAggregate(d, username, query)
    ELSE CellSuppressionAggregate(d, username, MinCellSize, query)

\* the loop of compare_all from the i-th method on; outs and logs are the outcomes and
\* the statements of the methods that have returned
RECURSIVE CompareFrom(_, _, _, _, _, _, _, _)
CompareFrom(t, username, query, Fs, draws, i, outs, logs) ==
    IF i > Len(Methods)
    THEN [raised |-> FALSE, err |-> None, outs |-> outs, logs |-> logs, t |-> t]
    ELSE Bind(MethodAggregate(Methods[i],
                              [audit |-> t.audit, history |-> t.history,
                               faults |-> Fs[i], log |-> <<>>],
                              username, query, draws),
              LAMBDA r :
                IF r.raised
                THEN [raised |-> TRUE, err |-> r.err, outs |-> outs,
                      logs |-> Append(logs, r.d.log),
                      t |-> [audit |-> r.d.audit, history |-> r.d.history]]
                ELSE CompareFrom([audit |-> r.d.audit, history |-> r.d.history],
                                 username, query, Fs, draws, i + 1,
                                 Append(outs, r.out), Append(logs, r.d.log)))

compare_all(t, username, query, Fs, draws) ==
    CompareFrom(t, username, query, Fs, draws, 1, <<>>, <<>>)

\* the statements of method m that can fail
MethodFaults(m) ==
    IF m = "min_size" THEN GwFaults("g1") \cup {{BlockLabel}} \cup GwFaults("g2")
    ELSE IF m = "overlap_control"
         THEN GwFaults("g1") \cup {{HistReadLabel}, {BlockLabel}, {HistStoreLabel}}
         ELSE GwFaults("g1")

\* at most one of the five methods meets failing statements
FaultPlans ==
    {[i \in 1..Len(Methods) |-> {}]}
    \cup {[i \in 1..Len(Methods) |-> IF i = j THEN F ELSE {}] :
            j \in 1..Len(Methods), F \in UNION {MethodFaults(Methods[k]) : k \in 1..Len(Methods)}}

\* the statements that fail were sent by the method they belong to
PlanMet(Fs, res) ==
    \A i \in 1..Len(Methods) :
        Fs[i] # {} =>
            /\ Fs[i] \in MethodFaults(Methods[i])
            /\ i <= Len(res.logs)
            /\ Fs[i] \subseteq {res.logs[i][n].label : n \in DOMAIN res.logs[i]}

CompareAll ==
    /\ calls < MaxCalls
    /\ \E q \in Queries, Fs \in FaultPlans :
        \E draws \in [1..Draws(q) -> NoiseValues] :
            \E res \in {compare_all([audit |-> audit, history |-> history], DefaultUser,
                                    q, Fs, draws)} :
                /\ PlanMet(Fs, res)
                /\ audit' = res.t.audit
                /\ history' = res.t.history
                /\ calls' = calls + 1
                /\ last' = [op |-> "compare_all", username |-> DefaultUser, query |-> q,
                            faults |-> Fs, raised |-> res.raised, err |-> res.err,
                            outs |-> res.outs, logs |-> res.logs,
                            audit0 |-> Len(audit), hist0 |-> Len(history)]
                /\ UNCHANGED <<pc, snap, cres, employees, pool>>

(***************************************************************************)
(* Inference attacks (src/src/attacks.py).  The attacker's queries carry   *)
(* parameters; the store's answers are computed from the table employees.  *)
(* NUMERIC values and Python floats are exact fractions <<tag, n, d>> in   *)
(* lowest terms, so float rounding is outside the model.                   *)
(***************************************************************************)
Abs(n) == IF n < 0 THEN -n ELSE n

RECURSIVE Gcd(_, _)
Gcd(a, b) == IF b = 0 THEN a ELSE Gcd(b, a % b)

Fraction(tag, n, d) ==
    Bind(Gcd(Abs(n), Abs(d)), LAMBDA g :
        IF d < 0 THEN <<tag, (-n) \div g, (-d) \div g>> ELSE <<tag, n \div g, d \div g>>)

\* a NUMERIC value of the store (decimal.Decimal in Python)
Decimal(n, d) == Fraction("dec", n, d)
\* a Python float
Float(n, d) == Fraction("float", n, d)

\* float(v) of a Decimal or an int; float(None) raises TypeError
float(v) == IF v[1] = "num" THEN Float(v[2], 1) ELSE Float(v[2], v[3])
ErrTypeError == "TypeError"

\* float arithmetic; an int operand n is Float(n, 1)
FMul(x, y) == Float(x[2] * y[2], x[3] * y[3])
FAdd(x, y) == Float(x[2] * y[3] + y[2] * x[3], x[3] * y[3])
FSub(x, y) == Float(x[2] * y[3] - y[2] * x[3], x[3] * y[3])
FAbs(x) == Float(Abs(x[2]), x[3])
FGreater(x, y) == x[2] * y[3] > y[2] * x[3]
\* the truth value of a float or None
Truthy(x) == x # Null /\ x[2] # 0

RECURSIVE SumSalary(_)
SumSalary(rows) == IF Len(rows) = 0 THEN 0 ELSE Head(rows).sal + SumSalary(Tail(rows))

\* FROM employees WHERE department = %s [AND name != %s], in name order
Members(table, department, excluded) ==
    SelectSeq(table, LAMBDA e : e.dept = department /\ e.id \notin excluded)

\* AVG(salary), SUM(salary): NULL over no rows
AvgSalary(rows) == IF Len(rows) = 0 THEN Null ELSE Decimal(SumSalary(rows), Len(rows))
TotalSalary(rows) == IF Len(rows) = 0 THEN Null ELSE Decimal(SumSalary(rows), 1)

\* SELECT salary FROM employees WHERE name = %s
SalaryRows(table, name) ==
    Bind(SelectSeq(table, LAMBDA e : e.id = name), LAMBDA rows :
        [i \in 1..Len(rows) |-> [salary |-> Decimal(rows[i].sal, 1)]])

\* an executor that hands over rows although the store raised
execute_unchecked(F, k, rows) == Rows(rows)

\* InferenceAttack.execute_query for the k-th query of an attack: None when the store
\* raises, the rows otherwise
execute_params(F, k, rows) == IF k \in F THEN NoRows ELSE Rows(rows)

\* what an attack call did: the dictionary it returned or the exception that left it,
\* and the queries it sent
AtkReturn(out, sent) == [raised |-> FALSE, err |-> None, out |-> out, sent |-> sent]
AtkRaise(err, sent) == [raised |-> TRUE, err |-> err, out |-> [success |-> FALSE], sent |-> sent]

\* DifferencingAttack.attack, from the answer of the second query on
DifferencingInfer(table, F, target_name, department, row1, row2) ==
    Bind(FSub(FMul(float(row1.avg_salary), Float(row1.emp_count, 1)),
              FMul(float(row2.avg_salary), Float(row2.emp_count, 1))),
         LAMBDA inferred_salary :
    Bind(execute_params(F, 3, SalaryRows(table, target_name)), LAMBDA actual :
    Bind(IF ~Falsy(actual) THEN float(actual.rows[1].salary) ELSE Null,
         LAMBDA actual_salary :
        AtkReturn([attack_type |-> "Differencing", success |-> TRUE,
                   target |-> target_name, department |-> department,
                   inferred_salary |-> inferred_salary,
                   actual_salary |-> actual_salary,
                   error |-> IF Truthy(actual_salary)
                             THEN FAbs(FSub(inferred_salary, actual_salary))
                             ELSE Null,
                   queries_used |-> 2],
                  {1, 2, 3}))))

\* DifferencingAttack.attack
DifferencingAttack(table, F, target_name, department) ==
    Bind(execute_params(F, 1,
             <<[avg_salary |-> AvgSalary(Members(table, department, {})),
                emp_count |-> Len(Members(table, department, {}))]>>),
         LAMBDA results1 :
    IF Falsy(results1)
    THEN AtkReturn([attack_type |-> "Differencing", success |-> FALSE,
                    reason |-> "Failed to execute first query",
                    inferred_salary |-> Null], {1})
    ELSE IF results1.rows[1].avg_salary = Null THEN AtkRaise(ErrTypeError, {1})
    ELSE
    Bind(execute_params(F, 2,
             <<[avg_salary |-> AvgSalary(Members(table, department, {target_name})),
                emp_count |-> Len(Members(table, department, {target_name}))]>>),
         LAMBDA results2 :
    IF Falsy(results2)
    THEN AtkReturn([attack_type |-> "Differencing", success |-> FALSE,
                    reason |-> "Failed to execute second query",
                    inferred_salary |-> Null], {1, 2})
    ELSE IF results2.rows[1].avg_salary = Null THEN AtkRaise(ErrTypeError, {1, 2})
    ELSE DifferencingInfer(table, F, target_name, department,
                           results1.rows[1], results2.rows[1])))

\* a Python bool where None is possible too
Bool(b) == <<"bool", b>>

\* SELECT department FROM employees WHERE name = %s
DepartmentRows(table, name) ==
    Bind(SelectSeq(table, LAMBDA e : e.id = name), LAMBDA rows :
        [i \in 1..Len(rows) |-> [department |-> rows[i].dept]])

\* SELECT COUNT(*) FROM employees WHERE department = %s AND salary > %s [AND name != %s]
HighEarnerCount(table, department, salary_threshold, excluded) ==
    Len(SelectSeq(Members(table, department, excluded),
                  LAMBDA e : e.sal > salary_threshold))

\* TrackerAttack.attack, from the two counts on
TrackerInfer(table, F, target_name, salary_threshold, count_with_all, count_without) ==
    Bind(count_with_all > count_without, LAMBDA is_high_earner :
    Bind(execute_params(F, 4, SalaryRows(table, target_name)), LAMBDA actual :
    Bind(IF ~Falsy(actual) THEN float(actual.rows[1].salary) ELSE Null,
         LAMBDA actual_salary :
    Bind(IF Truthy(actual_salary)
         THEN Bool(FGreater(actual_salary, Float(salary_threshold, 1)))
         ELSE Null,
         LAMBDA actual_is_high :
        AtkReturn([attack_type |-> "Tracker", success |-> TRUE, target |-> target_name,
                   salary_threshold |-> salary_threshold,
                   inferred_high_earner |-> is_high_earner,
                   actual_salary |-> actual_salary,
                   actual_high_earner |-> actual_is_high,
                   correct |-> IF actual_is_high # Null
                               THEN Bool(Bool(is_high_earner) = actual_is_high)
                               ELSE Null,
                   queries_used |-> 2],
                  {1, 2, 3, 4})))))

\* TrackerAttack.attack
TrackerAttack(table, F, target_name, salary_threshold) ==
    Bind(execute_params(F, 1, DepartmentRows(table, target_name)), LAMBDA dept_result :
    IF Falsy(dept_result)
    THEN AtkReturn([attack_type |-> "Tracker", success |-> FALSE,
                    reason |-> "Could not find target employee"], {1})
    ELSE
    Bind(dept_result.rows[1].department, LAMBDA department :
    Bind(execute_params(F, 2,
             <<[high_earner_count |->
                    HighEarnerCount(table, department, salary_threshold, {})]>>),
         LAMBDA result1 :
    Bind(execute_params(F, 3,
             <<[high_earner_count |->
                    HighEarnerCount(table, department, salary_threshold, {target_name})]>>),
         LAMBDA result2 :
        TrackerInfer(table, F, target_name, salary_threshold,
                     IF ~Falsy(result1) THEN result1.rows[1].high_earner_count ELSE 0,
                     IF ~Falsy(result2) THEN result2.rows[1].high_earner_count ELSE 0)))))

\* sum(known_salaries.values())
RECURSIVE SumValues(_, _)
SumValues(known, names) ==
    IF names = {} THEN 0
    ELSE Bind(CHOOSE n \in names : TRUE, LAMBDA n :
            known[n] + SumValues(known, names \ {n}))

\* SELECT name, salary FROM employees WHERE department = %s [ORDER BY name]
NameSalaryRows(table, department) ==
    Bind(Members(table, department, {}), LAMBDA rows :
        [i \in 1..Len(rows) |-> [name |-> rows[i].id, salary |-> Decimal(rows[i].sal, 1)]])

\* SumAttack.attack, from the totals on: the loop over all_emps that fills
\* inferred_salaries when one employee is unknown
SumInfer(table, F, department, known_salaries, total_sum, total_count) ==
    Bind(Float(SumValues(known_salaries, DOMAIN known_salaries), 1), LAMBDA known_sum :
    Bind(Cardinality(DOMAIN known_salaries), LAMBDA known_count :
    Bind(FSub(total_sum, known_sum), LAMBDA unknown_sum :
    Bind(total_count - known_count, LAMBDA unknown_count :
    Bind(IF unknown_count = 1
         THEN execute_params(F, 2, NameSalaryRows(table, department))
         ELSE Rows(<<>>),
         LAMBDA all_emps :
        IF all_emps.none THEN AtkRaise(ErrTypeError, {1, 2})
        ELSE AtkReturn(
                 [attack_type |-> "SUM", success |-> unknown_count = 1,
                  department |-> department, total_sum |-> total_sum,
                  known_sum |-> known_sum, unknown_sum |-> unknown_sum,
                  unknown_count |-> unknown_count,
                  inferred_salaries |->
                      [name \in {all_emps.rows[i].name : i \in DOMAIN all_emps.rows}
                                    \ DOMAIN known_salaries |-> unknown_sum],
                  queries_used |-> 2],
                 IF unknown_count = 1 THEN {1, 2} ELSE {1}))))))

\* SumAttack.attack
SumAttack(table, F, department, known_salaries) ==
    Bind(execute_params(F, 1,
             <<[total_salary |-> TotalSalary(Members(table, department, {})),
                emp_count |-> Len(Members(table, department, {}))]>>),
         LAMBDA result1 :
    IF Falsy(result1)
    THEN AtkReturn([attack_type |-> "SUM", success |-> FALSE,
                    reason |-> "Failed to get department totals"], {1})
    ELSE IF result1.rows[1].total_salary = Null THEN AtkRaise(ErrTypeError, {1})
    ELSE SumInfer(table, F, department, known_salaries,
                  float(result1.rows[1].total_salary), result1.rows[1].emp_count))

\* error / actual: a numpy float divided by 0.0 is inf or nan, with a warning
NonFinite == <<"nonfinite">>
FDiv(x, y) == IF y[2] = 0 THEN NonFinite ELSE Float(x[2] * y[3], x[3] * y[2])

\* the matrix without its first row and its j-th column
Minor(M, j) ==
    [r \in 1..(Len(M) - 1) |->
        [c \in 1..(Len(M) - 1) |-> M[r + 1][IF c < j THEN c ELSE c + 1]]]

\* the determinant, by expansion along the first row from column j on
RECURSIVE DetFrom(_, _)
DetFrom(M, j) ==
    IF Len(M) = 1 THEN M[1][1]
    ELSE IF j > Len(M) THEN Float(0, 1)
    ELSE Bind(FMul(M[1][j], DetFrom(Minor(M, j), 1)), LAMBDA term :
            IF j % 2 = 1 THEN FAdd(term, DetFrom(M, j + 1))
            ELSE FSub(DetFrom(M, j + 1), term))
Det(M) == DetFrom(M, 1)

\* np.array of the int equations, as floats
AsFloats(equations) ==
    [r \in DOMAIN equations |-> [c \in DOMAIN equations[r] |-> Float(equations[r][c], 1)]]

\* np.linalg.solve(A, b) in exact arithmetic: LinAlgError when A is singular, the
\* solution (by Cramer's rule) otherwise
solve(A, b) ==
    Bind(Det(A), LAMBDA det :
        IF det[2] = 0 THEN [ok |-> FALSE, x |-> <<>>]
        ELSE [ok |-> TRUE,
              x |-> [i \in DOMAIN A |->
                        FDiv(Det([r \in DOMAIN A |->
                                     [c \in DOMAIN A |-> IF c = i THEN b[r] ELSE A[r][c]]]),
                             det)]])

\* [1] * n
OnesRow(n) == [c \in 1..n |-> 1]

\* an equation that excludes no employee
NoExclusionRow(n, i) == OnesRow(n)

\* equation = [1] * n; equation[i] = 0
ExclusionRow(n, i) == [c \in 1..n |-> IF c = i THEN 0 ELSE 1]

\* a loop that sends the exclusion queries and keeps none of their equations
NoExclusions(table, F, target_department, emps, i) ==
    [raised |-> FALSE, equations |-> <<>>, constants |-> <<>>, sent |-> 1..(2 + Len(emps))]

\* the loop "for i, emp in enumerate(employees)" from the i-th employee on: the
\* equations and constants of the queries that were answered
RECURSIVE ExclusionEquations(_, _, _, _, _)
ExclusionEquations(table, F, target_department, emps, i) ==
    IF i > Len(emps)
    THEN [raised |-> FALSE, equations |-> <<>>, constants |-> <<>>,
          sent |-> 1..(2 + Len(emps))]
    ELSE Bind(Members(table, target_department, {emps[i].name}), LAMBDA others :
         Bind(execute_params(F, 2 + i,
                             <<[avg_sal |-> AvgSalary(others), cnt |-> Len(others)]>>),
              LAMBDA result :
            IF Falsy(result)
            THEN ExclusionEquations(table, F, target_department, emps, i + 1)
            ELSE IF result.rows[1].avg_sal = Null
            THEN [raised |-> TRUE, equations |-> <<>>, constants |-> <<>>,
                  sent |-> 1..(2 + i)]
            ELSE Bind(ExclusionEquations(table, F, target_department, emps, i + 1),
                      LAMBDA rest :
                    IF rest.raised THEN rest
                    ELSE [raised |-> FALSE,
                          equations |-> <<ExclusionRow(Len(emps), i)>> \o rest.equations,
                          constants |-> <<FMul(float(result.rows[1].avg_sal),
                                               Float(result.rows[1].cnt, 1))>>
                                        \o rest.constants,
                          sent |-> rest.sent])))

\* the equations of LinearSystemAttack.attack: the average of all, then the exclusions
LinearEquations(table, F, target_department, emps) ==
    Bind(execute_params(F, 2,
             <<[avg_sal |-> AvgSalary(Members(table, target_department, {}))]>>),
         LAMBDA result :
        IF ~Falsy(result) /\ result.rows[1].avg_sal = Null
        THEN [raised |-> TRUE, equations |-> <<>>, constants |-> <<>>, sent |-> {1, 2}]
        ELSE Bind(ExclusionEquations(table, F, target_department, emps, 1), LAMBDA rest :
                IF rest.raised \/ Falsy(result) THEN rest
                ELSE [raised |-> FALSE,
                      equations |-> <<OnesRow(Len(emps))>> \o rest.equations,
                      constants |-> <<FMul(float(result.rows[1].avg_sal),
                                           Float(Len(emps), 1))>> \o rest.constants,
                      sent |-> rest.sent]))

\* LinearSystemAttack.attack, from the equations on
LinearSolve(target_department, emps, sys) ==
    Bind(Len(emps), LAMBDA n :
    IF Len(sys.equations) >= n
    THEN Bind(solve(AsFloats(SubSeq(sys.equations, 1, n)), SubSeq(sys.constants, 1, n)),
              LAMBDA inferred_salaries :
            IF ~inferred_salaries.ok
            THEN AtkReturn([attack_type |-> "Linear System", success |-> FALSE,
                            reason |-> "System is singular or unsolvable"], sys.sent)
            ELSE AtkReturn(
                     [attack_type |-> "Linear System", success |-> TRUE,
                      department |-> target_department, employee_count |-> n,
                      equations_used |-> Len(sys.equations),
                      results |->
                          [name \in {emps[i].name : i \in 1..n} |->
                              Bind(CHOOSE i \in 1..n : emps[i].name = name, LAMBDA i :
                              Bind(float(emps[i].salary), LAMBDA actual :
                              Bind(FAbs(FSub(inferred_salaries.x[i], actual)),
                                   LAMBDA error :
                                  [inferred |-> inferred_salaries.x[i],
                                   actual |-> actual, error |-> error,
                                   error_pct |->
                                       IF FDiv(error, actual) = NonFinite THEN NonFinite
                                       ELSE FMul(FDiv(error, actual), Float(100, 1))])))],
                      queries_used |-> Len(sys.equations)],
                     sys.sent))
    ELSE AtkReturn([attack_type |-> "Linear System", success |-> FALSE,
                    reason |-> <<"Not enough equations", Len(sys.equations), "<", n>>],
                   sys.sent))

\* LinearSystemAttack.attack
LinearSystemAttack(table, F, target_department) ==
    Bind(execute_params(F, 1, NameSalaryRows(table, target_department)), LAMBDA emps :
    IF Falsy(emps) \/ Len(emps.rows) < 2
    THEN AtkReturn([attack_type |-> "Linear System", success |-> FALSE,
                    reason |-> "Not enough employees in department"], {1})
    ELSE Bind(LinearEquations(table, F, target_department, emps.rows), LAMBDA sys :
            IF sys.raised THEN AtkRaise(ErrTypeError, sys.sent)
            ELSE LinearSolve(target_department, emps.rows, sys)))

\* the names, departments and salaries of the tables the attacks are run on
Staff == 1..3
Departments == {"Engineering", "Operations"}
Salaries == 0..2

\* the tables with unique names: each name is absent or has a department and a salary
Absent == <<>>
TableOf(f) ==
    Bind(SelectSeq([i \in Staff |-> i], LAMBDA i : f[i] # Absent), LAMBDA present :
        [j \in 1..Len(present) |->
            [id |-> present[j], dept |-> f[present[j]][1], sal |-> f[present[j]][2]]])
Tables == {TableOf(f) : f \in [Staff -> {Absent} \cup (Departments \X Salaries)]}

\* the thresholds the tracker attack is run with
Thresholds == 0..1

\* the salaries the attacker claims to know: of some names, right or wrong
Knowns == UNION {[names -> 1..2] : names \in SUBSET Staff}

\* the sets of queries of an attack that fail: none or one of its first n
QueryFaults(n) == {{}} \cup {{k} : k \in 1..n}

\* an attack call ends: the tables are untouched, last describes the call
AttackDone(op, args, F, res) ==
    /\ F \subseteq res.sent
    /\ calls' = calls + 1
    /\ last' = [op |-> op, args |-> args, faults |-> F, raised |-> res.raised,
                err |-> res.err, out |-> res.out, sent |-> res.sent,
                audit0 |-> Len(audit), hist0 |-> Len(history)]
    /\ UNCHANGED <<audit, history, pc, snap, cres, employees, pool>>

Differencing ==
    /\ calls < MaxCalls
    /\ \E target_name \in Staff, department \in Departments, F \in QueryFaults(3) :
        \E res \in {DifferencingAttack(employees, F, target_name, department)} :
            AttackDone("differencing",
                       [target_name |-> target_name, department |-> department], F, res)

Tracker ==
    /\ calls < MaxCalls
    /\ \E target_name \in Staff, salary_threshold \in Thresholds, F \in QueryFaults(4) :
        \E res \in {TrackerAttack(employees, F, target_name, salary_threshold)} :
            AttackDone("tracker",
                       [target_name |-> target_name, salary_threshold |-> salary_threshold],
                       F, res)

Sum ==
    /\ calls < MaxCalls
    /\ \E department \in Departments, known_salaries \in Knowns, F \in QueryFaults(2) :
        \E res \in {SumAttack(employees, F, department, known_salaries)} :
            AttackDone("sum",
                       [department |-> department, known_salaries |-> known_salaries],
                       F, res)

\* the queries of a linear-system attack that fail: at most two of them
LinearFaults ==
    {F \in SUBSET (1..(2 + Cardinality(Staff))) : Cardinality(F) <= 2}

LinearSystem ==
    /\ calls < MaxCalls
    /\ \E target_department \in Departments, F \in LinearFaults :
        \E res \in {LinearSystemAttack(employees, F, target_department)} :
            AttackDone("linear_system", [department |-> target_department], F, res)

\* the targets and values AttackSuite.run_all_attacks passes to the attacks, on the
\* scale of the tables: 'Alice Johnson', 'Bob Smith' and 90000.00, 'Dana Cox': 72000.00
AliceJohnson == 1
BobSmith == 2
DanaCox == 3
BobThreshold == 1
DanaSalary == 1
SuiteKeys == <<"differencing_alice", "tracker_bob", "sum_operations", "linear_finance">>

\* the k-th attack of run_all_attacks
SuiteAttack(k, table, F) ==
    IF k = 1 THEN DifferencingAttack(table, F, AliceJohnson, "Engineering")
    ELSE IF k = 2 THEN TrackerAttack(table, F, BobSmith, BobThreshold)
    ELSE IF k = 3
         THEN SumAttack(table, F, "Operations", [name \in {DanaCox} |-> DanaSalary])
    ELSE LinearSystemAttack(table, F, "Finance")

\* AttackSuite.run_all_attacks from the k-th attack on; results and sent are the
\* dictionaries and the queries of the attacks that have run
RECURSIVE SuiteFrom(_, _, _, _, _)
SuiteFrom(table, Fs, k, results, sent) ==
    IF k > Len(SuiteKeys)
    THEN [raised |-> FALSE, err |-> None, results |-> results, sent |-> sent,
          successful |-> Cardinality({i \in DOMAIN results : results[i].success})]
    ELSE Bind(SuiteAttack(k, table, Fs[k]), LAMBDA r :
            IF r.raised
            THEN [raised |-> TRUE, err |-> r.err, results |-> results,
                  sent |-> Append(sent, r.sent), successful |-> 0]
            ELSE SuiteFrom(table, Fs, k + 1, Append(results, r.out),
                           Append(sent, r.sent)))

run_all_attacks(table, Fs) == SuiteFrom(table, Fs, 1, <<>>, <<>>)

\* at most one of the four attacks meets a failing query
SuitePlans ==
    {[k \in DOMAIN SuiteKeys |-> {}]}
    \cup {[k \in DOMAIN SuiteKeys |-> IF k = j THEN F ELSE {}] :
            j \in DOMAIN SuiteKeys, F \in QueryFaults(2 + Cardinality(Staff)) \ {{}}}

RunAllAttacks ==
    /\ calls < MaxCalls
    /\ \E Fs \in SuitePlans :
        \E res \in {run_all_attacks(employees, Fs)} :
            /\ \A k \in DOMAIN SuiteKeys :
                    Fs[k] # {} => k <= Len(res.sent) /\ Fs[k] \subseteq res.sent[k]
            /\ calls' = calls + 1
            /\ last' = [op |-> "run_all_attacks", faults |-> Fs, raised |-> res.raised,
                        err |-> res.err, results |-> res.results, sent |-> res.sent,
                        successful |-> res.successful,
                        audit0 |-> Len(audit), hist0 |-> Len(history)]
            /\ UNCHANGED <<audit, history, pc, snap, cres, employees, pool>>

(***************************************************************************)
(* Connections (src/src/database.py) and Polyinstantiation.query_as_user.  *)
(* A connection is a store session; what matters of it is the value of the *)
(* session setting app.user_clearance.  The pool is psycopg2's             *)
(* SimpleConnectionPool(1, 20): getconn takes the idle connection added    *)
(* last or opens one, putconn keeps a connection while fewer than minconn  *)
(* are idle and closes it otherwise.                                       *)
(***************************************************************************)
MinConn == 1
MaxConn == 20
\* app.user_clearance of a session that never ran SET
Unset == 0
Levels == 1..3

\* _initialize_pool: minconn connections are opened
InitialPool == [idle |-> [i \in 1..MinConn |-> Unset], used |-> 0, opened |-> 0]

NoConn == [held |-> FALSE, clearance |-> Unset, cred |-> FALSE]
Conn(clearance, cred) == [held |-> TRUE, clearance |-> clearance, cred |-> cred]

\* Database.get_connection: psycopg2.connect with credentials, or getconn; fail means
\* that opening a connection fails
get_connection(pl, cred, fail) ==
    IF cred
    THEN IF fail THEN [ok |-> FALSE, conn |-> NoConn, pl |-> pl]
         ELSE [ok |-> TRUE, conn |-> Conn(Unset, TRUE),
               pl |-> [pl EXCEPT !.opened = @ + 1]]
    ELSE IF Len(pl.idle) > 0
    THEN [ok |-> TRUE, conn |-> Conn(pl.idle[Len(pl.idle)], FALSE),
          pl |-> [pl EXCEPT !.idle = SubSeq(@, 1, Len(@) - 1), !.used = @ + 1]]
    ELSE IF fail \/ pl.used = MaxConn THEN [ok |-> FALSE, conn |-> NoConn, pl |-> pl]
    ELSE [ok |-> TRUE, conn |-> Conn(Unset, FALSE), pl |-> [pl EXCEPT !.used = @ + 1]]

\* Database.return_connection: connection_pool.putconn(conn)
return_connection(pl, conn) ==
    IF Len(pl.idle) < MinConn
    THEN [pl EXCEPT !.idle = Append(@, conn.clearance), !.used = @ - 1]
    ELSE [pl EXCEPT !.used = @ - 1]

\* a finally block that returns pooled connections and forgets the credentialed ones
ReleasePooledOnly(pl, conn) ==
    IF conn.cred THEN pl ELSE return_connection(pl, conn)

\* the finally block of Database.execute_query: conn.close() or return_connection(conn)
Release(pl, conn) ==
    IF conn.cred THEN [pl EXCEPT !.opened = @ - 1] ELSE return_connection(pl, conn)

\* a call of query_as_user that has not begun
NoQuery ==
    [level |-> Unset, cred |-> FALSE, conn |-> NoConn, raised |-> FALSE, seen |-> Unset,
     trace |-> <<>>]

\* query_as_user(clearance_level, query, params, user, password) begins
QBegin(p) ==
    /\ pc[p] = "idle"
    /\ \E level \in Levels, cred \in BOOLEAN :
        cres' = [cres EXCEPT ![p] = [NoQuery EXCEPT !.level = level, !.cred = cred]]
    /\ pc' = [pc EXCEPT ![p] = "set"]
    /\ UNCHANGED <<audit, history, calls, last, snap, employees, pool>>

\* execute_query: conn = self.get_connection(user, password), in set_user_clearance
\* (pc "set") or in the query proper (pc "query")
QConnect(p) ==
    /\ pc[p] \in {"set", "query"}
    /\ \E fail \in BOOLEAN :
        \E r \in {get_connection(pool, cres[p].cred, fail)} :
            /\ fail => ~r.ok
            /\ pool' = r.pl
            /\ IF r.ok
               THEN /\ cres' = [cres EXCEPT ![p].conn = r.conn, ![p].trace = <<"get">>]
                    /\ pc' = [pc EXCEPT ![p] = IF pc[p] = "set" THEN "setting" ELSE "querying"]
               ELSE /\ cres' = [cres EXCEPT ![p].raised = TRUE, ![p].trace = <<"raise">>]
                    /\ pc' = [pc EXCEPT ![p] = "done"]
    /\ UNCHANGED <<audit, history, calls, last, snap, employees>>

\* execute_query from cursor.execute on: the statement and commit, or rollback and
\* raise; then the finally block.  The statement is SET app.user_clearance (pc
\* "setting") or the caller's query, which the store evaluates under the session's
\* clearance (pc "querying")
QExecute(p) ==
    /\ pc[p] \in {"setting", "querying"}
    /\ \E fail \in BOOLEAN :
        IF fail
        THEN /\ pool' = Release(pool, cres[p].conn)
             /\ cres' = [cres EXCEPT ![p].conn = NoConn, ![p].raised = TRUE,
                                     ![p].trace = @ \o <<"execute", "rollback", "release",
                                                         "raise">>]
             /\ pc' = [pc EXCEPT ![p] = "done"]
        ELSE IF pc[p] = "setting"
        THEN /\ pool' = Release(pool, [cres[p].conn EXCEPT !.clearance = cres[p].level])
             /\ cres' = [cres EXCEPT ![p].conn = NoConn,
                                     ![p].trace = @ \o <<"execute", "commit", "release",
                                                         "return">>]
             /\ pc' = [pc EXCEPT ![p] = "query"]
        ELSE /\ pool' = Release(pool, cres[p].conn)
             /\ cres' = [cres EXCEPT ![p].conn = NoConn,
                                     ![p].seen = cres[p].conn.clearance,
                                     ![p].trace = @ \o <<"execute", "commit", "release",
                                                         "return">>]
             /\ pc' = [pc EXCEPT ![p] = "done"]
    /\ UNCHANGED <<audit, history, calls, last, snap, employees>>

\* query_as_user has returned or raised, and the caller goes on to its next call
QAgain(p) ==
    /\ calls < MaxCalls
    /\ pc[p] = "done"
    /\ pc' = [pc EXCEPT ![p] = "idle"]
    /\ cres' = [cres EXCEPT ![p] = NoQuery]
    /\ calls' = calls + 1
    /\ UNCHANGED <<audit, history, last, snap, employees, pool>>

(***************************************************************************)
(* The tables live in the PostgreSQL server and outlive the process: a run *)
(* starts on the tables that earlier runs of OverlapControl.aggregate have *)
(* left.                                                                   *)
(***************************************************************************)
Procs == {1, 2}
NoReq ==
    [username |-> None, query |-> <<>>, ok |-> FALSE, err |-> None, results |-> NoRows,
     blocked |-> FALSE, reason |-> None, out |-> NoOutcome]

EmptyTables == [audit |-> <<>>, history |-> <<>>]

\* the tables after username has run the queries qs through OverlapControl.aggregate
RECURSIVE PriorRuns(_, _, _)
PriorRuns(t, username, qs) ==
    IF Len(qs) = 0 THEN t
    ELSE Bind(OverlapControlAggregate(
                  [audit |-> t.audit, history |-> t.history, faults |-> {}, log |-> <<>>],
                  username, Head(qs)),
              LAMBDA res :
                IF res.raised THEN t
                ELSE PriorRuns([audit |-> res.d.audit, history |-> res.d.history],
                               username, Tail(qs)))

\* QOps and then the salaries of k employees, one by one
OpsThenOthers(k) == <<QOps>> \o [i \in 1..k |-> QOther(i)]

StartOn(t, table) ==
    /\ employees = table
    /\ pool = InitialPool
    /\ audit = t.audit
    /\ history = t.history
    /\ calls = 0
    /\ last = NoCall
    /\ pc = [p \in Procs |-> "idle"]
    /\ snap = [p \in Procs |-> <<>>]
    /\ cres = [p \in Procs |-> NoReq]

Start(t) == StartOn(t, Employees)

Init == \E qs \in {<<>>, <<QOps>>} : Start(PriorRuns(EmptyTables, DefaultUser, qs))

Next ==
    \/ ExecuteWithLogging
    \/ AttackExecuteQuery
    \/ NoProtection
    \/ MinimumSizeRestriction
    \/ DifferentialPrivacy
    \/ OverlapControl
    \/ CellSuppression

Spec == Init /\ [][Next]_vars

\* OverlapControl.aggregate on a history that holds an admitted QOps and, after it,
\* up to as many other admitted queries as the history read fetches
InitOverlap ==
    \E k \in {0, HistoryLimit - 1, HistoryLimit} :
        Start(PriorRuns(EmptyTables, DefaultUser, OpsThenOthers(k)))

NextOverlap == OverlapControl

NextCompare == CompareAll

SpecCompare == Init /\ [][NextCompare]_vars

SpecOverlap == InitOverlap /\ [][NextOverlap]_vars

\* the attacks, on any table of employees
InitAttack == \E table \in Tables : StartOn(EmptyTables, table)

NextAttack ==
    \/ Differencing
    \/ Tracker
    \/ Sum
    \/ LinearSystem
    \/ RunAllAttacks

SpecAttack == InitAttack /\ [][NextAttack]_vars

\* the differencing attack alone
NextDifferencing == Differencing

SpecDifferencing == InitAttack /\ [][NextDifferencing]_vars

\* the linear-system attack alone
NextLinear == LinearSystem

SpecLinear == InitAttack /\ [][NextLinear]_vars

(***************************************************************************)
(* Concurrent calls of OverlapControl.aggregate (the web server handles    *)
(* requests in threads, each call takes its own pooled connection, and the *)
(* code takes no lock).  One step is one database statement of a call, with*)
(* the local computation that follows it.                                  *)
(***************************************************************************)
\* history = self.db.get_query_history(self.username, limit=20)
CRead(p) ==
    /\ pc[p] = "idle"
    /\ \E u \in Users, q \in Queries :
        /\ snap' = [snap EXCEPT ![p] =
                        get_query_history(D0({}), HistReadLabel, u, HistoryLimit).rows]
        /\ cres' = [cres EXCEPT ![p] = [NoReq EXCEPT !.username = u, !.query = q]]
    /\ pc' = [pc EXCEPT ![p] = "read"]
    /\ UNCHANGED <<audit, history, calls, last, employees, pool>>

\* execute_with_logging: results = self.db.execute_query(query, params, user, password)
CExecute(p) ==
    /\ pc[p] = "read"
    /\ \E r \in {execute_query(D0({}), <<"g1", "exec">>, cres[p].query)} :
        cres' = [cres EXCEPT ![p].ok = r.ok, ![p].err = r.err,
                             ![p].results = IF r.ok THEN Rows(r.rows) ELSE NoRows]
    /\ pc' = [pc EXCEPT ![p] = "executed"]
    /\ UNCHANGED <<audit, history, calls, last, snap, employees, pool>>

\* execute_with_logging: self.db.log_query_audit(...) of the try or the except branch
CAudit(p) ==
    /\ pc[p] = "executed"
    /\ \E a \in {IF cres[p].ok
                 THEN log_query_audit(D0({}), <<"g1", "audit">>, cres[p].username,
                                      cres[p].query,
                                      IF Len(cres[p].results.rows) > 0
                                      THEN Len(cres[p].results.rows) ELSE 0,
                                      FALSE, None)
                 ELSE log_query_audit(D0({}), <<"g1", "except_audit">>, cres[p].username,
                                      cres[p].query, 0, TRUE, cres[p].err)} :
        audit' = a.d.audit
    /\ cres' = [cres EXCEPT ![p].blocked = ~cres[p].ok, ![p].reason = cres[p].err]
    /\ pc' = [pc EXCEPT ![p] = IF cres[p].ok /\ ~Falsy(cres[p].results)
                               THEN "checking" ELSE "returning"]
    /\ UNCHANGED <<history, calls, last, snap, employees, pool>>

\* the early return of OverlapControl.aggregate: blocked by the gateway, or no rows
CReturn(p) ==
    /\ pc[p] = "returning"
    /\ cres' = [cres EXCEPT ![p].out =
                    Outcome("Overlap Control", cres[p].blocked, cres[p].reason, NoRows,
                            <<"threshold", ThresholdNum, ThresholdDen>>, NoRows)]
    /\ pc' = [pc EXCEPT ![p] = "done"]
    /\ UNCHANGED <<audit, history, calls, last, snap, employees, pool>>

\* the comparison with the history read at the start, and then the audit INSERT of
\* the block or the INSERT into query_history
CCheck(p) ==
    /\ pc[p] = "checking"
    /\ \E res \in {OverlapCheck([rows |-> snap[p]],
                                [results |-> cres[p].results, d |-> D0({})],
                                cres[p].username, cres[p].query)} :
        /\ audit' = res.d.audit
        /\ history' = res.d.history
        /\ cres' = [cres EXCEPT ![p].out = res.out]
    /\ pc' = [pc EXCEPT ![p] = "done"]
    /\ UNCHANGED <<calls, last, snap, employees, pool>>

NextConc == \E p \in Procs : CRead(p) \/ CExecute(p) \/ CAudit(p) \/ CReturn(p) \/ CCheck(p)

SpecConc == Start(EmptyTables) /\ [][NextConc]_vars

\* the positions of a call in which it holds a connection
Holding == {"setting", "querying"}

\* concurrent calls of Polyinstantiation.query_as_user
NextPool == \E p \in Procs : QBegin(p) \/ QConnect(p) \/ QExecute(p) \/ QAgain(p)

SpecPool == Start(EmptyTables) /\ [][NextPool]_vars

(***************************************************************************)
(* Properties.  last describes the call that ended last: its inputs, the   *)
(* statements it sent (log), what it returned or raised, and the lengths   *)
(* of the tables when it began (audit0, hist0).                            *)
(***************************************************************************)
StrategyOps ==
    {"no_protection", "min_size", "differential_privacy", "overlap_control",
     "cell_suppression"}
AuditLabels ==
    {<<"g1", "audit">>, <<"g1", "except_audit">>, <<"g2", "audit">>,
     <<"g2", "except_audit">>, BlockLabel}

\* the query statements of the last call, in the order sent
ExecEvents == SelectSeq(last.log, LAMBDA e : e.kind = "exec")

\* the store answers q with at least one row
HasResult(q) == StoreEval(q).ok /\ Len(StoreEval(q).rows) > 0
QueryHash(q) == sha256(result_str(StoreEval(q).rows))

\* entries holds a hash that is over the threshold with that of q's result
SimilarIn(q, entries) ==
    \E i \in DOMAIN entries :
        /\ Len(entries[i].result_set_hash) > 0
        /\ OverThreshold(calculate_overlap(QueryHash(q), entries[i].result_set_hash))

\* the caller's history entries when the last call began, most recent first
CallerHistory == RecentOf(SubSeq(history, 1, last.hist0), last.username, last.hist0)

C2_NeverBothAdmitted ==
    \A p, r \in Procs :
        (/\ p # r
         /\ pc[p] = "done" /\ pc[r] = "done"
         /\ cres[p].username = cres[r].username
         /\ ~cres[p].out.blocked /\ ~cres[p].out.results.none
         /\ ~cres[r].out.blocked /\ ~cres[r].out.results.none)
        => ~OverThreshold(calculate_overlap(QueryHash(cres[p].query),
                                            QueryHash(cres[r].query)))

\* C3: an Outcome any of the five strategies returns with blocked=true carries no rows.
C3_BlockedCarriesNoRows ==
    (last.op \in StrategyOps /\ ~last.raised /\ last.out.blocked) => last.out.results.none

\* C3 witness: Minimum Size blocks the average over the two employees of hr
C3_Witness ==
    /\ last.op = "min_size"
    /\ last.query = QHr
    /\ last.faults = {}
    /\ last.out.blocked
    /\ last.out.block_reason = TooSmall(2, MinSize)
    /\ last.out.results.none

\* C4: an Outcome any strategy returns with blocked=false carries a rows sequence (the
\* empty list when the query returned no row).
C4_NotBlockedCarriesRows ==
    (last.op \in StrategyOps /\ ~last.raised /\ ~last.out.blocked) => ~last.out.results.none

\* C5: a call of execute_with_logging appends exactly one audit record for the query
\* text: was_blocked=false and the row count when the store executed the query,
\* was_blocked=true and the failure message when the store failed.
C5_OneAuditRecordPerCall ==
    (last.op = "gateway") =>
        /\ Len(audit) = last.audit0 + 1
        /\ audit[Len(audit)].query_text = last.query
        /\ IF ExecEvents[1].ok
           THEN /\ ~audit[Len(audit)].was_blocked
                /\ audit[Len(audit)].result_count = ExecEvents[1].n
           ELSE /\ audit[Len(audit)].was_blocked
                /\ audit[Len(audit)].block_reason = ExecEvents[1].err

\* C6: a query an attack sends to the store produces an audit record.
C6_AttackQueryAudited ==
    (last.op = "attack_query") =>
        /\ Len(audit) = last.audit0 + 1
        /\ audit[Len(audit)].query_text = last.query

\* C7: when only audit writes fail, no exception escapes execute_with_logging or a
\* strategy's aggregate, and a gateway call whose query the store executed returns the
\* rows with blocked=false.
C7_AuditFailureIsHarmless ==
    (/\ last.op \in StrategyOps \cup {"gateway"}
     /\ last.faults # {}
     /\ last.faults \subseteq AuditLabels)
    => /\ ~last.raised
       /\ (last.op = "gateway" /\ ExecEvents[1].ok)
            => (~last.gw.blocked /\ ~last.gw.results.none)

\* C8: when a store execute call of a strategy fails, the strategy returns blocked=true
\* with the failure message as block_reason and sends no further query.
C8_StoreFailureBlocks ==
    (/\ last.op \in StrategyOps
     /\ \E i \in DOMAIN ExecEvents : ~ExecEvents[i].ok)
    => /\ ~last.raised
       /\ last.out.blocked
       /\ ~ExecEvents[Len(ExecEvents)].ok
       /\ last.out.block_reason = ExecEvents[Len(ExecEvents)].err
       /\ \A i \in 1..(Len(ExecEvents) - 1) : ExecEvents[i].ok

\* C9: when the count pre-check of Minimum Size returns a size below the minimum,
\* aggregate returns blocked=true without rows and a reason that reports that count
\* and the minimum.
C9_SmallSetBlocked ==
    (/\ last.op = "min_size"
     /\ ExecEvents[1].ok
     /\ <<"g1", "audit">> \notin last.faults
     /\ TrueSize(last.query) < MinSize)
    => /\ ~last.raised
       /\ last.out.blocked
       /\ last.out.results.none
       /\ last.out.block_reason = TooSmall(TrueSize(last.query), MinSize)

\* C10: Minimum Size never returns blocked=true for a query whose result set has at
\* least the minimum size (checked on calls in which no database statement fails).
C10_LargeSetNotBlocked ==
    (/\ last.op = "min_size"
     /\ last.faults = {}
     /\ TrueSize(last.query) >= MinSize)
    => (~last.raised /\ ~last.out.blocked)

\* the rows the store returns for the query of the last call
StoreRows == StoreEval(last.query).rows

\* row has a column whose name contains "count" with a value below the minimum
SmallCell(row) == "count" \in DOMAIN row /\ row.count[2] < MinCellSize

C12_NoiseOnEveryNumericField ==
    (/\ last.op = "differential_privacy"
     /\ ~last.raised
     /\ ~last.out.blocked
     /\ ~last.out.results.none)
    => /\ Len(last.out.results.rows) = Len(StoreRows)
       /\ \A i \in 1..Len(StoreRows) :
            /\ DOMAIN last.out.results.rows[i] = DOMAIN StoreRows[i]
            /\ \A k \in DOMAIN StoreRows[i] :
                 IF StoreRows[i][k][1] \in {"num", "dec"}
                 THEN /\ last.out.results.rows[i][k][1] = "num"
                      /\ last.out.results.rows[i][k][2] - StoreRows[i][k][2] \in NoiseValues
                 ELSE last.out.results.rows[i][k] = StoreRows[i][k]

\* the statements of the kind given that the last compare_all call sent and the
\* database carried out, over all its methods
Done(kind) ==
    {<<i, n>> \in (1..Len(last.logs)) \X (1..8) :
        /\ n <= Len(last.logs[i])
        /\ last.logs[i][n].kind = kind
        /\ last.logs[i][n].ok}

\* C13: compare_all invokes each of the five strategies once on the query and returns
\* the outcomes of all five; when it returns, every audit write and the history append
\* its strategies performed are in the tables.
C13_CompareAllRunsAllFive ==
    (last.op = "compare_all") =>
        /\ ~last.raised
        /\ Len(last.logs) = Len(Methods)
        /\ Len(last.outs) = Len(Methods)
        /\ \A i \in 1..Len(Methods) : last.outs[i].method = MethodNames[i]
        /\ Len(audit) = last.audit0 + Cardinality(Done("audit"))
        /\ Len(history) = last.hist0 + Cardinality(Done("hist_store"))

\* the call that has just ended is an OverlapControl.aggregate call that returned
\* blocked=false with rows
Admitted(call) ==
    /\ call.op = "overlap_control"
    /\ ~call.raised
    /\ ~call.out.blocked
    /\ ~call.out.results.none

\* C14: over the calls of the strategies, the gateway and the attacker's executor, the
\* history entries already written are never changed or removed, and one entry is
\* appended by exactly the OverlapControl.aggregate calls that return blocked=false with
\* rows; no other call appends any.
C14_HistoryAppendOnly ==
    [][/\ Len(history') >= Len(history)
       /\ SubSeq(history', 1, Len(history)) = history
       /\ IF Admitted(last')
          THEN /\ Len(history') = Len(history) + 1
               /\ history'[Len(history')].query_text = last'.query
               /\ history'[Len(history')].username = last'.username
          ELSE history' = history]_vars

C14_Witness ==
    /\ Admitted(last)
    /\ last.hist0 > 0
    /\ Len(history) = last.hist0 + 1
    /\ history[1].query_text = QOps
    /\ history[Len(history)].query_text = last.query

\* the rows of table employees with the name given
RowsNamed(name) == SelectSeq(employees, LAMBDA e : e.id = name)

\* C15: a differencing attack whose target is a member of the department, on a table
\* with unique names and a store that answers every query, returns success=true with
\* inferred_salary = avg_with * n - avg_without * count_without equal to the target's
\* salary, and with the actual salary.
C15_DifferencingRecoversSalary ==
    (/\ last.op = "differencing"
     /\ last.faults = {}
     /\ \E e \in Range(employees) :
            e.id = last.args.target_name /\ e.dept = last.args.department)
    => /\ ~last.raised
       /\ last.out.success
       /\ last.out.inferred_salary = Float(RowsNamed(last.args.target_name)[1].sal, 1)
       /\ last.out.actual_salary = Float(RowsNamed(last.args.target_name)[1].sal, 1)

\* C16: on every table with unique names and for every threshold, a tracker attack on
\* a target that exists, with every query answered, infers (count_with > count_without)
\* exactly whether the target's salary is above the threshold and reports correct=true.
C16_TrackerInfersMembership ==
    (/\ last.op = "tracker"
     /\ last.faults = {}
     /\ Len(RowsNamed(last.args.target_name)) > 0)
    => /\ ~last.raised
       /\ last.out.success
       /\ last.out.inferred_high_earner
              = (RowsNamed(last.args.target_name)[1].sal > last.args.salary_threshold)
       /\ last.out.correct = Bool(TRUE)

\* the members of the department the last attack was run on
Dept == Members(employees, last.args.department, {})
DeptNames == {Dept[i].id : i \in DOMAIN Dept}

\* C17: a sum attack with every query answered returns unknown_sum = total_sum -
\* known_sum and unknown_count = total_count - known_count; success is true exactly
\* when unknown_count is 1, and then inferred_salaries holds exactly one name, the one
\* member of the department that is not in the known set, with the value unknown_sum.
C17_SumInfersTheOneUnknown ==
    (last.op = "sum" /\ last.faults = {})
    => /\ ~last.raised
       /\ last.out.unknown_sum
              = Float(SumSalary(Dept)
                      - SumValues(last.args.known_salaries,
                                  DOMAIN last.args.known_salaries), 1)
       /\ last.out.unknown_count
              = Len(Dept) - Cardinality(DOMAIN last.args.known_salaries)
       /\ last.out.success = (last.out.unknown_count = 1)
       /\ last.out.success
              => /\ Cardinality(DOMAIN last.out.inferred_salaries) = 1
                 /\ DOMAIN last.out.inferred_salaries
                        = DeptNames \ DOMAIN last.args.known_salaries
                 /\ \A name \in DOMAIN last.out.inferred_salaries :
                        last.out.inferred_salaries[name] = last.out.unknown_sum

\* the equations the last linear-system attack built, and the matrix it solved
Built == LinearEquations(employees, last.faults, last.args.department,
                         NameSalaryRows(employees, last.args.department))
Solved == AsFloats(SubSeq(Built.equations, 1, Len(Dept)))

\* C18: a linear-system attack on a department of n >= 2 employees returns a result;
\* when every query is answered it builds at least n equations; whenever it has at least
\* n, the matrix it solves is not singular and the solution is the salary of each
\* employee, in name order, with success=true; a singular system would give
\* success=false with a reason.
C18_LinearSystemRecoversAll ==
    (last.op = "linear_system" /\ 1 \notin last.faults /\ Len(Dept) >= 2)
    => /\ ~last.raised
       /\ last.faults = {} => Len(Built.equations) >= Len(Dept)
       /\ IF Len(Built.equations) >= Len(Dept)
          THEN /\ Det(Solved)[2] # 0
               /\ IF Det(Solved)[2] = 0
                  THEN /\ ~last.out.success
                       /\ last.out.reason = "System is singular or unsolvable"
                  ELSE /\ last.out.success
                       /\ DOMAIN last.out.results = DeptNames
                       /\ \A i \in DOMAIN Dept :
                            last.out.results[Dept[i].id].inferred = Float(Dept[i].sal, 1)
          ELSE ~last.out.success

C18_Witness ==
    /\ last.op = "linear_system"
    /\ last.faults = {}
    /\ Len(Dept) = 3
    /\ ~last.raised
    /\ last.out.success
    /\ last.out.results[1].inferred = Float(2, 1)
    /\ last.out.results[2].inferred = Float(0, 1)
    /\ last.out.results[3].inferred = Float(1, 1)

AttackOps == {"differencing", "tracker", "sum", "linear_system"}

\* C19: whatever the store answers to its queries (a failure, no rows, an aggregate row
\* with a null AVG or SUM), each of the four attacks returns a dictionary, with
\* success=false when its first query failed; no exception leaves the attack.
C19_AttacksAlwaysReturn ==
    (last.op \in AttackOps)
    => /\ ~last.raised
       /\ 1 \in last.faults => ~last.out.success

\* C20: run_all_attacks runs the differencing, tracker, sum and linear-system attacks
\* once each in that order and returns an entry for each of the four, whether or not an
\* earlier attack had success=false; its count of successful attacks is the number of
\* entries with success=true.
C20_SuiteRunsAllFour ==
    (last.op = "run_all_attacks")
    => /\ ~last.raised
       /\ Len(last.sent) = Len(SuiteKeys)
       /\ Len(last.results) = Len(SuiteKeys)
       /\ \A k \in DOMAIN last.results :
            last.results[k].attack_type
                = <<"Differencing", "Tracker", "SUM", "Linear System">>[k]
       /\ last.successful
            = Cardinality({k \in DOMAIN last.results : last.results[k].success})

\* C21: a differencing attack whose with-target or without-target query fails (or gives
\* no rows) returns success=false with no inferred value; when the with-target query
\* fails, the without-target query is never sent.
C21_DifferencingFailsCleanly ==
    (last.op = "differencing" /\ last.faults \cap {1, 2} # {})
    => /\ ~last.raised
       /\ ~last.out.success
       /\ last.out.inferred_salary = Null
       /\ 1 \in last.faults => last.sent = {1}

C21_Witness ==
    /\ last.op = "differencing"
    /\ last.faults = {1}
    /\ ~last.raised
    /\ ~last.out.success
    /\ last.out.reason = "Failed to execute first query"
    /\ last.sent = {1}
    /\ Len(Dept) >= 2

\* C22: a tracker attack whose count-with-target or count-without-target query fails
\* returns success=false instead of an inferred membership value.
C22_TrackerFailsOnLostCount ==
    (last.op = "tracker" /\ last.faults \cap {2, 3} # {})
    => /\ ~last.raised
       /\ ~last.out.success

NeverBlockingOps == {"no_protection", "differential_privacy", "cell_suppression"}

\* C23: No Protection, Differential Privacy and Cell Suppression return a dictionary for
\* every query and every result set, with blocked=true exactly when the store failed to
\* execute the query the gateway sent.
C23_BlockedOnlyOnStoreFailure ==
    (last.op \in NeverBlockingOps)
    => /\ ~last.raised
       /\ last.out.blocked <=> ~ExecEvents[1].ok

Reissue ==
    /\ last.op = "overlap_control"
    /\ HasResult(last.query)
    /\ Len(CallerHistory) > 0
    /\ Len(CallerHistory[1].result_set_hash) > 0
    /\ result_str(StoreRows) = result_str(StoreEval(CallerHistory[1].query_text).rows)

\* C25: the call after an admitted non-empty result set, by the same caller and with a
\* store result of the same rows, has the hash of the stored entry and similarity 1.0
\* (256 of 256 bits) to it, which is above the threshold 0.8, and returns blocked=true.
\* No similarity is ever above 1.0, so a threshold of 1.0 blocks nothing.
C25_ReissueBlocked ==
    /\ (Reissue /\ Len(ExecEvents) > 0 /\ ExecEvents[1].ok)
        => /\ QueryHash(last.query) = CallerHistory[1].result_set_hash
           /\ calculate_overlap(QueryHash(last.query), CallerHistory[1].result_set_hash)
                = HashBits
           /\ OverThreshold(calculate_overlap(QueryHash(last.query),
                                              CallerHistory[1].result_set_hash))
           /\ ~last.raised
           /\ last.out.blocked
    /\ (last.op = "overlap_control" /\ HasResult(last.query))
        => \A i \in DOMAIN CallerHistory :
                Len(CallerHistory[i].result_set_hash) > 0
                    => calculate_overlap(QueryHash(last.query),
                                         CallerHistory[i].result_set_hash) <= HashBits

\* C26: a query_as_user call that returns had its query evaluated in a session whose
\* clearance is the level passed to that call, whatever other query_as_user calls ran
\* in between, on pooled or on credentialed connections.
C26_QueryUnderOwnClearance ==
    \A p \in Procs :
        (pc[p] = "done" /\ ~cres[p].raised) => cres[p].seen = cres[p].level

\* C30: Database.execute_query leaks no connection.  The connections checked out of
\* the pool and the open credentialed connections are exactly those held by calls of
\* execute_query that have not left it yet, so none is out once the calls have
\* completed; and a call that fails after it got its connection rolls back before it
\* raises.
C30_NoConnectionLeak ==
    /\ pool.used = Cardinality({p \in Procs : pc[p] \in Holding /\ ~cres[p].cred})
    /\ pool.opened = Cardinality({p \in Procs : pc[p] \in Holding /\ cres[p].cred})
    /\ \A p \in Procs :
        (pc[p] = "done" /\ cres[p].raised /\ Len(cres[p].trace) > 1) =>
            cres[p].trace = <<"get", "execute", "rollback", "release", "raise">>

\* a credentialed call failed and a pooled call returned, and no connection is out
C30_Witness ==
    /\ pool.used = 0 /\ pool.opened = 0
    /\ \A p \in Procs : pc[p] = "done"
    /\ \E p, q \in Procs :
        /\ cres[p].cred /\ cres[p].raised /\ Len(cres[p].trace) > 1
        /\ ~cres[q].cred /\ ~cres[q].raised

\* the count pre-check of the last Minimum Size call came back with a count
PreCheckAnswered ==
    /\ ExecEvents[1].ok
    /\ \E i \in DOMAIN last.log : last.log[i].label = <<"g1", "audit">> /\ last.log[i].ok

\* C27: in a Minimum Size call the first query sent to the store is the count-equivalent
\* query, and the original query is sent, once and after it, only when the count
\* pre-check came back with a count at or above the minimum; a call whose pre-check
\* failed or counted fewer rows sends the count-equivalent query and nothing else.
C27_OriginalOnlyAfterCount ==
    (last.op = "min_size") =>
        /\ Len(ExecEvents) \in {1, 2}
        /\ ExecEvents[1].text = convert_to_count_query(last.query)
        /\ Len(ExecEvents) = 2 =>
            /\ ExecEvents[2].text = last.query
            /\ PreCheckAnswered
            /\ TrueSize(last.query) >= MinSize
        /\ (~PreCheckAnswered \/ TrueSize(last.query) < MinSize) => Len(ExecEvents) = 1

\* C27 witness: the pre-check counts the two employees of hr, the call blocks, and the
\* only query sent is the count-equivalent query, which is not the original text
C27_Witness ==
    /\ last.op = "min_size"
    /\ last.query = QHr
    /\ PreCheckAnswered
    /\ ~last.raised /\ last.out.blocked
    /\ Len(ExecEvents) = 1
    /\ ExecEvents[1].text # last.query

\* the audit records the last call added
Gained == SubSeq(audit, last.audit0 + 1, Len(audit))

\* the audit INSERTs of the last call that went through: the i-th wrote Gained[i]
AuditWrites == SelectSeq(last.log, LAMBDA e : e.kind = "audit" /\ e.ok)

\* the block_reason of Gained[i] is neither None nor empty; it is a formatted message
\* when a strategy wrote the record and the text of an exception when the gateway did
NonEmptyReason(i) ==
    IF AuditWrites[i].label = BlockLabel
    THEN Len(Gained[i].block_reason) > 0
    ELSE Gained[i].block_reason \notin {None, ""}

\* C28: a strategy call that returns blocked=true added at least one audit record with
\* was_blocked=true and a non-empty block_reason, and a strategy call that returns
\* blocked=false added no record with was_blocked=true.
C28_BlockedHasAuditTrail ==
    (last.op \in StrategyOps /\ ~last.raised) =>
        IF last.out.blocked
        THEN \E i \in DOMAIN Gained :
                Gained[i].was_blocked /\ NonEmptyReason(i)
        ELSE \A i \in DOMAIN Gained : ~Gained[i].was_blocked

\* C28 witness: Overlap Control executes the query, finds its result in the caller's
\* history and blocks; the call added the gateway's record and the record of the block
C28_Witness ==
    /\ last.op = "overlap_control"
    /\ ~last.raised /\ last.out.blocked
    /\ ExecEvents[1].ok
    /\ Len(Gained) = 2
    /\ ~Gained[1].was_blocked
    /\ Gained[2].was_blocked /\ Len(Gained[2].block_reason) = 5

\* the history when the last call began, without the entries of the other callers
OwnHistory ==
    SelectSeq(SubSeq(history, 1, last.hist0), LAMBDA e : e.username = last.username)

\* the last call again, with the same failing statements, on the caller's own entries
OnOwnHistory ==
    OverlapControlAggregate(
        [audit |-> <<>>, history |-> OwnHistory, faults |-> last.faults, log |-> <<>>],
        last.username, last.query)

\* C29: whether OverlapControl.aggregate blocks, admits or fails the query of a caller
\* is the same as on a history without the entries of every other caller, and every
\* history entry the call appends carries the caller's own username.
C29_CallerIsolation ==
    (last.op = "overlap_control") =>
        /\ OnOwnHistory.raised = last.raised
        /\ OnOwnHistory.out.blocked = last.out.blocked
        /\ OnOwnHistory.out.results = last.out.results
        /\ \A i \in (last.hist0 + 1)..Len(history) : history[i].username = last.username

\* C29 witness: the history holds the result of QOps under another username; the caller
\* asks QOps, is admitted, and the entry is appended under the caller's username
C29_Witness ==
    /\ last.op = "overlap_control"
    /\ last.query = QOps
    /\ last.hist0 > 0
    /\ \E i \in 1..last.hist0 :
        /\ history[i].username # last.username
        /\ history[i].result_set_hash = QueryHash(QOps)
    /\ ~last.raised /\ ~last.out.blocked /\ ~last.out.results.none
    /\ Len(history) = last.hist0 + 1
    /\ history[Len(history)].username = last.username

====
